---------------------------- MODULE Spec2Model ----------------------------
(***************************************************************************)
(* A model of mini-lsm (mini-lsm-starter/src): the block format, the       *)
(* sorted-string table, the memtable, the iterator combinators and the     *)
(* LsmStorage coordinator.                                                 *)
(*                                                                         *)
(* Byte strings (keys, values, encoded blocks, files) are sequences of     *)
(* numbers in 0..255.  Indices named as in the Rust source are 0-based;    *)
(* the model adds 1 where it indexes a TLA+ sequence.                      *)
(***************************************************************************)
EXTENDS Integers, Sequences, FiniteSets, TLC

(***************************************************************************)
(* Bounds of the model.                                                    *)
(***************************************************************************)
\* number of distinct keys the SST-level specification draws from
NumSstKeys == 4

\* number of distinct keys the iterator-level specifications draw from
NumIterKeys == 3

\* most cursors handed to one MergeIterator
MaxCursors == 3

\* most calls of next on an SsTableIterator that is past its last block
MaxPastEnd == 2

\* the block size LsmStorage::sync builds its SSTs with
SyncBlockSize == 4096

(***************************************************************************)
(* Byte strings.                                                           *)
(***************************************************************************)
SIZEOF_U16 == 2
SIZEOF_U32 == 4

\* the i-th key (1-based), ascending in i: <<1>>, <<1,1>>, <<2>>, <<2,1>>, ...
KeyOf(i) == IF i % 2 = 1 THEN << (i + 1) \div 2 >> ELSE << i \div 2, 1 >>

\* a < b in the lexicographic order of byte slices (Ord for [u8])
BytesLess(a, b) ==
    \E i \in 1..Len(b) :
        /\ \A j \in 1..(i - 1) : IF j <= Len(a) THEN a[j] = b[j] ELSE FALSE
        /\ IF i > Len(a) THEN TRUE ELSE a[i] < b[i]

\* slice.cmp(other)
BytesCmp(a, b) ==
    IF a = b THEN "Equal" ELSE IF BytesLess(a, b) THEN "Less" ELSE "Greater"

BytesLeq(a, b) == a = b \/ BytesLess(a, b)

\* BufMut::put_u16: big-endian
put_u16(n) == << (n \div 256) % 256, n % 256 >>

\* BufMut::put_u32: big-endian
put_u32(n) ==
    << (n \div 16777216) % 256, (n \div 65536) % 256, (n \div 256) % 256, n % 256 >>

\* Buf::get_u16 on the two bytes that start at 0-based position pos of buf
get_u16(buf, pos) == buf[pos + 1] * 256 + buf[pos + 2]

\* `x as u16`
AsU16(x) == x % 65536

(***************************************************************************)
(* Block, BlockBuilder (block.rs, block/builder.rs).                       *)
(***************************************************************************)
\* BlockBuilder::new
BlockBuilder_new(block_size) ==
    [block_size |-> block_size, data |-> <<>>, offsets |-> <<>>]

\* BlockBuilder::is_empty
BlockBuilder_is_empty(bb) == bb.data = <<>>

\* BlockBuilder::estimated_size
BlockBuilder_estimated_size(bb) ==
    IF BlockBuilder_is_empty(bb)
    THEN 0
    ELSE Len(bb.offsets) * SIZEOF_U16 + Len(bb.data) + SIZEOF_U16

\* BlockBuilder::add: [ok |-> the returned bool, bb |-> the builder afterwards],
\* panic |-> TRUE when the assertion on the key fails
BlockBuilder_add(bb, key, value) ==
    IF key = <<>>
    THEN [panic |-> TRUE, ok |-> FALSE, bb |-> bb]
    ELSE IF BlockBuilder_estimated_size(bb) + Len(key) + Len(value) + 3 * SIZEOF_U16
                > bb.block_size
    THEN [panic |-> FALSE, ok |-> FALSE, bb |-> bb]
    ELSE [panic |-> FALSE, ok |-> TRUE,
          bb |-> [bb EXCEPT
                    !.offsets = Append(bb.offsets, AsU16(Len(bb.data))),
                    !.data = bb.data \o put_u16(AsU16(Len(key))) \o key
                                     \o put_u16(AsU16(Len(value))) \o value]]

\* BlockBuilder::build: panics (ok = FALSE) on an empty builder
BlockBuilder_build(bb) ==
    IF BlockBuilder_is_empty(bb)
    THEN [ok |-> FALSE, block |-> [data |-> <<>>, offsets |-> <<>>]]
    ELSE [ok |-> TRUE, block |-> [data |-> bb.data, offsets |-> bb.offsets]]

\* the bytes of a Vec<u16> as the memory holds them (little-endian target)
OffsetsAsBytes(offsets) ==
    [i \in 1..(Len(offsets) * SIZEOF_U16) |->
        IF i % 2 = 1 THEN offsets[(i + 1) \div 2] % 256
                     ELSE offsets[i \div 2] \div 256]

\* Block::encode
Block_encode(b) ==
    b.data \o OffsetsAsBytes(b.offsets) \o put_u16(AsU16(Len(b.offsets)))

\* Block::decode
Block_decode(data) ==
    LET num_of_elements == get_u16(data, Len(data) - SIZEOF_U16)
        row_data_end == Len(data) - SIZEOF_U16 - num_of_elements * SIZEOF_U16
    IN  [data |-> SubSeq(data, 1, row_data_end),
         offsets |-> [i \in 1..num_of_elements |->
                        data[row_data_end + 2 * i - 1]
                          + 256 * data[row_data_end + 2 * i]]]

(***************************************************************************)
(* BlockIterator (block/iterator.rs).                                      *)
(***************************************************************************)
\* BlockIterator::new
BlockIterator_new(block) ==
    [block |-> block, key |-> <<>>, value |-> <<>>, idx |-> 0]

\* BlockIterator::is_valid
BlockIterator_is_valid(it) == it.key # <<>>

\* BlockIterator::seek_to
BlockIterator_seek_to(it, idx) ==
    IF idx >= Len(it.block.offsets)
    THEN [it EXCEPT !.key = <<>>, !.value = <<>>]
    ELSE LET offset == it.block.offsets[idx + 1]
             key_len == get_u16(it.block.data, offset)
             key_end == offset + SIZEOF_U16 + key_len
             value_len == get_u16(it.block.data, key_end)
         IN  [it EXCEPT
                !.key = SubSeq(it.block.data, offset + SIZEOF_U16 + 1, key_end),
                !.value = SubSeq(it.block.data, key_end + SIZEOF_U16 + 1,
                                 key_end + SIZEOF_U16 + value_len),
                !.idx = idx]

\* BlockIterator::seek_to_first
BlockIterator_seek_to_first(it) == BlockIterator_seek_to(it, 0)

\* BlockIterator::create_and_seek_to_first
BlockIterator_create_and_seek_to_first(block) ==
    BlockIterator_seek_to_first(BlockIterator_new(block))

\* BlockIterator::next
BlockIterator_next(it) ==
    BlockIterator_seek_to([it EXCEPT !.idx = it.idx + 1], it.idx + 1)

\* the loop of BlockIterator::seek_to_key
RECURSIVE SeekToKeyLoop(_, _, _, _)
SeekToKeyLoop(it, left, right, key) ==
    IF left < right
    THEN LET mid == (left + right) \div 2
             at == BlockIterator_seek_to(it, mid)
             c == BytesCmp(at.key, key)
         IN  IF c = "Less" THEN SeekToKeyLoop(at, mid + 1, right, key)
             ELSE IF c = "Equal" THEN at
             ELSE SeekToKeyLoop(at, left, mid, key)
    ELSE BlockIterator_seek_to(it, right)

\* BlockIterator::seek_to_key
BlockIterator_seek_to_key(it, key) ==
    SeekToKeyLoop(it, 0, Len(it.block.offsets), key)

\* BlockIterator::create_and_seek_to_key
BlockIterator_create_and_seek_to_key(block, key) ==
    BlockIterator_seek_to_key(BlockIterator_create_and_seek_to_first(block), key)

(***************************************************************************)
(* SsTableBuilder (table/builder.rs).                                      *)
(***************************************************************************)
\* SsTableBuilder::new
SsTableBuilder_new(block_size) ==
    [meta |-> <<>>, block_builder |-> BlockBuilder_new(block_size),
     blocks |-> <<>>, block_size |-> block_size]

\* an estimated size that does not grow
SsTableBuilder_estimated_size_zero(sb) == 0

\* SsTableBuilder::estimated_size
SsTableBuilder_estimated_size(sb) == Len(sb.blocks)

\* SsTableBuilder::add: [ok |-> FALSE] when an assertion fails on the way
\* (the key is empty, or BlockBuilder::build is called on an empty builder)
RECURSIVE SsTableBuilder_add(_, _, _)
SsTableBuilder_add(sb, key, value) ==
    LET withMeta ==
            IF BlockBuilder_is_empty(sb.block_builder)
            THEN [sb EXCEPT !.meta =
                    Append(sb.meta, [offset |-> SsTableBuilder_estimated_size(sb),
                                     first_key |-> key])]
            ELSE sb
        r == BlockBuilder_add(withMeta.block_builder, key, value)
    IN  IF r.panic THEN [ok |-> FALSE, sb |-> withMeta]
        ELSE IF r.ok THEN [ok |-> TRUE, sb |-> [withMeta EXCEPT !.block_builder = r.bb]]
        ELSE LET built == BlockBuilder_build(withMeta.block_builder)
             IN  IF ~built.ok
                 THEN [ok |-> FALSE, sb |-> withMeta]
                 ELSE SsTableBuilder_add(
                        [withMeta EXCEPT
                           !.block_builder = BlockBuilder_new(sb.block_size),
                           !.blocks = withMeta.blocks \o Block_encode(built.block)],
                        key, value)

\* BlockMeta::encode_block_meta, the bytes appended to the buffer
RECURSIVE encode_block_meta(_)
encode_block_meta(block_meta) ==
    IF block_meta = <<>>
    THEN <<>>
    ELSE LET meta == Head(block_meta)
         IN  put_u32(meta.offset) \o put_u16(AsU16(Len(meta.first_key)))
               \o meta.first_key \o encode_block_meta(Tail(block_meta))

\* SsTableBuilder::build (FileObject::create keeps the bytes)
SsTableBuilder_build(sb) ==
    LET blocks ==
            IF ~BlockBuilder_is_empty(sb.block_builder)
            THEN sb.blocks \o Block_encode(BlockBuilder_build(sb.block_builder).block)
            ELSE sb.blocks
        meta_offset == Len(blocks)
    IN  [file |-> blocks \o encode_block_meta(sb.meta) \o put_u32(meta_offset),
         block_metas |-> sb.meta,
         block_meta_offset |-> meta_offset]

(***************************************************************************)
(* SsTable (table.rs).                                                     *)
(***************************************************************************)
\* FileObject::read
FileObject_read(file, offset, len) == SubSeq(file, offset + 1, offset + len)

\* SsTable::num_of_blocks
SsTable_num_of_blocks(t) == Len(t.block_metas)

\* SsTable::read_block: [ok |-> FALSE] is the "overflow of SsTable" error
SsTable_read_block(t, block_idx) ==
    IF block_idx >= Len(t.block_metas)
    THEN [ok |-> FALSE, block |-> [data |-> <<>>, offsets |-> <<>>]]
    ELSE LET offset == t.block_metas[block_idx + 1].offset
             offset_end ==
                 IF block_idx + 1 < Len(t.block_metas)
                 THEN t.block_metas[block_idx + 2].offset
                 ELSE t.block_meta_offset
         IN  [ok |-> TRUE,
              block |-> Block_decode(FileObject_read(t.file, offset, offset_end - offset))]

\* slice::partition_point with the predicate of find_block_idx
RECURSIVE PartitionPoint(_, _, _, _)
PartitionPoint(metas, key, left, right) ==
    IF left < right
    THEN LET mid == left + (right - left) \div 2
         IN  IF BytesLeq(metas[mid + 1].first_key, key)
             THEN PartitionPoint(metas, key, mid + 1, right)
             ELSE PartitionPoint(metas, key, left, mid)
    ELSE left

\* SsTable::find_block_idx
SsTable_find_block_idx(t, key) ==
    LET p == PartitionPoint(t.block_metas, key, 0, Len(t.block_metas))
    IN  IF p = 0 THEN 0 ELSE p - 1

(***************************************************************************)
(* SsTableIterator (table/iterator.rs).  A fallible constructor returns    *)
(* [ok, it]; ok = FALSE is the Err of read_block.                          *)
(***************************************************************************)
NoBlockIter == BlockIterator_new([data |-> <<>>, offsets |-> <<>>])

\* SsTableIterator::create_and_seek_to_first
SsTableIterator_create_and_seek_to_first(t) ==
    LET Open(rb) ==
            IF ~rb.ok
            THEN [ok |-> FALSE,
                  it |-> [table |-> t, block_iter |-> NoBlockIter, block_idx |-> 0]]
            ELSE [ok |-> TRUE,
                  it |-> [table |-> t,
                          block_iter |-> BlockIterator_create_and_seek_to_first(rb.block),
                          block_idx |-> 0]]
    IN  Open(SsTable_read_block(t, 0))

\* SsTableIterator::seek_to_key_inner
SsTableIterator_seek_to_key_inner(t, key) ==
    LET NextBlock(block_idx, rb) ==
            [ok |-> rb.ok, block_idx |-> block_idx,
             block_iter |-> IF rb.ok
                            THEN BlockIterator_create_and_seek_to_first(rb.block)
                            ELSE NoBlockIter]
        InBlock(block_idx, block_iter) ==
            IF ~BlockIterator_is_valid(block_iter)
               /\ block_idx + 1 < SsTable_num_of_blocks(t)
            THEN NextBlock(block_idx + 1, SsTable_read_block(t, block_idx + 1))
            ELSE [ok |-> TRUE, block_idx |-> block_idx, block_iter |-> block_iter]
        Seek(block_idx, rb) ==
            IF ~rb.ok
            THEN [ok |-> FALSE, block_idx |-> block_idx, block_iter |-> NoBlockIter]
            ELSE InBlock(block_idx, BlockIterator_create_and_seek_to_key(rb.block, key))
        At(block_idx) == Seek(block_idx, SsTable_read_block(t, block_idx))
    IN  At(SsTable_find_block_idx(t, key))

\* SsTableIterator::create_and_seek_to_key
SsTableIterator_create_and_seek_to_key(t, key) ==
    LET Made(r) ==
            [ok |-> r.ok,
             it |-> [table |-> t, block_iter |-> r.block_iter, block_idx |-> r.block_idx]]
    IN  Made(SsTableIterator_seek_to_key_inner(t, key))

\* SsTableIterator::is_valid, key, value
SsTableIterator_is_valid(it) == BlockIterator_is_valid(it.block_iter)
SsTableIterator_key(it) == it.block_iter.key
SsTableIterator_value(it) == it.block_iter.value

\* SsTableIterator::next without the move to the next block
SsTableIterator_next_in_block(it) ==
    [ok |-> TRUE, it |-> [it EXCEPT !.block_iter = BlockIterator_next(it.block_iter)]]

\* SsTableIterator::next: [ok, it]
SsTableIterator_next(it) ==
    LET NextBlock(stepped, idx, rb) ==
            [ok |-> rb.ok,
             it |-> [stepped EXCEPT
                       !.block_idx = idx,
                       !.block_iter = IF rb.ok
                                      THEN BlockIterator_create_and_seek_to_first(rb.block)
                                      ELSE stepped.block_iter]]
        Stepped(stepped, idx) ==
            IF SsTableIterator_is_valid(stepped)
            THEN [ok |-> TRUE, it |-> stepped]
            ELSE IF idx < SsTable_num_of_blocks(it.table)
                 THEN NextBlock(stepped, idx, SsTable_read_block(it.table, idx))
                 ELSE [ok |-> TRUE, it |-> [stepped EXCEPT !.block_idx = idx]]
    IN  Stepped([it EXCEPT !.block_iter = BlockIterator_next(it.block_iter)],
                it.block_idx + 1)

(***************************************************************************)
(* MemTable (mem_table.rs).  A SkipMap is a function from the keys it      *)
(* holds to their values; `maps` is the heap of all SkipMaps, indexed by   *)
(* memtable id, so that an iterator reads the map as it is when it steps.  *)
(***************************************************************************)
Unbounded == [kind |-> "Unbounded", key |-> <<>>]
Included(k) == [kind |-> "Included", key |-> k]
Excluded(k) == [kind |-> "Excluded", key |-> k]

\* key is inside a range's start bound / end bound
AboveLower(b, key) ==
    IF b.kind = "Unbounded" THEN TRUE
    ELSE IF b.kind = "Included" THEN BytesLeq(b.key, key)
    ELSE BytesLess(b.key, key)
BelowUpper(b, key) ==
    IF b.kind = "Unbounded" THEN TRUE
    ELSE IF b.kind = "Included" THEN BytesLeq(key, b.key)
    ELSE BytesLess(key, b.key)

\* the least byte string of a non-empty set
MinKey(S) == CHOOSE k \in S : \A j \in S : BytesLeq(k, j)

\* MemTable::create
MemTable_create == << >>

\* MemTable::get: [some, value]
MemTable_get(map, key) ==
    IF key \in DOMAIN map
    THEN [some |-> TRUE, value |-> map[key]]
    ELSE [some |-> FALSE, value |-> <<>>]

\* MemTable::put (SkipMap::insert replaces the value of a key it holds)
MemTable_put(map, key, value) ==
    [k \in (DOMAIN map) \cup {key} |-> IF k = key THEN value ELSE map[k]]

\* a pop_front that loses the entries it does not return
SkipMap_pop_front_lossy(map) ==
    [key |-> MinKey(DOMAIN map), value |-> map[MinKey(DOMAIN map)], rest |-> << >>]

\* SkipMap::pop_front on a non-empty map: the least entry and the rest
SkipMap_pop_front(map) ==
    LET k == MinKey(DOMAIN map)
    IN  [key |-> k, value |-> map[k],
         rest |-> [j \in (DOMAIN map) \ {k} |-> map[j]]]

\* MemTableIterator::is_valid, key, value
MemTableIterator_is_valid(it) == it.item[1] # <<>>

\* MemTableIterator::next: the entry that follows the current one in the
\* range, read from the map as it is now; the default (empty) pair at the end
MemTableIterator_next(it, maps) ==
    LET from == IF it.item[1] = <<>> THEN it.lower ELSE Excluded(it.item[1])
        rest == {k \in DOMAIN maps[it.mt] : AboveLower(from, k) /\ BelowUpper(it.upper, k)}
    IN  IF rest = {}
        THEN [it EXCEPT !.item = << <<>>, <<>> >>]
        ELSE [it EXCEPT !.item = << MinKey(rest), maps[it.mt][MinKey(rest)] >>]

\* MemTable::scan
MemTable_scan(mt, lower, upper, maps) ==
    MemTableIterator_next(
        [type |-> "mem", mt |-> mt, lower |-> lower, upper |-> upper,
         item |-> << <<>>, <<>> >>], maps)

(***************************************************************************)
(* StorageIterator: the cursors a MergeIterator holds.  Three kinds:       *)
(* "mem" (MemTableIterator), "sst" (SsTableIterator) and "vec", a cursor   *)
(* over a given sequence of entries.                                       *)
(***************************************************************************)
VecIter(items) == [type |-> "vec", items |-> items, pos |-> 1, fail |-> 0]
\* the same cursor, whose next returns Err when called at position n
VecIterFailing(items, n) == [VecIter(items) EXCEPT !.fail = n]
SstIter(it) == [type |-> "sst", it |-> it]

Iter_is_valid(c) ==
    IF c.type = "vec" THEN c.pos <= Len(c.items)
    ELSE IF c.type = "mem" THEN MemTableIterator_is_valid(c)
    ELSE SsTableIterator_is_valid(c.it)

\* key() and value(); an invalid "mem" or "sst" cursor holds empty buffers
Iter_key(c) ==
    IF c.type = "vec" THEN (IF c.pos <= Len(c.items) THEN c.items[c.pos][1] ELSE <<>>)
    ELSE IF c.type = "mem" THEN c.item[1]
    ELSE SsTableIterator_key(c.it)

Iter_value(c) ==
    IF c.type = "vec" THEN (IF c.pos <= Len(c.items) THEN c.items[c.pos][2] ELSE <<>>)
    ELSE IF c.type = "mem" THEN c.item[2]
    ELSE SsTableIterator_value(c.it)

\* next(): [ok, it]
Iter_next(c, maps) ==
    LET Wrap(r) == [ok |-> r.ok, it |-> SstIter(r.it)]
    IN  IF c.type = "vec"
        THEN (IF c.pos = c.fail THEN [ok |-> FALSE, it |-> c]
              ELSE [ok |-> TRUE, it |-> [c EXCEPT !.pos = c.pos + 1]])
        ELSE IF c.type = "mem" THEN [ok |-> TRUE, it |-> MemTableIterator_next(c, maps)]
        ELSE Wrap(SsTableIterator_next(c.it))

(***************************************************************************)
(* MergeIterator (iterators/merge_iterator.rs).  The BinaryHeap is the set *)
(* of its HeapWrappers [idx, it]; the order is total (indices differ), so  *)
(* peek is the one greatest wrapper.                                       *)
(***************************************************************************)
\* Ordering::reverse
Reverse(o) == IF o = "Less" THEN "Greater" ELSE IF o = "Greater" THEN "Less" ELSE "Equal"

\* usize::cmp
NatCmp(a, b) == IF a < b THEN "Less" ELSE IF a > b THEN "Greater" ELSE "Equal"

\* a comparison of HeapWrappers whose tie-break prefers the higher index
HeapWrapper_partial_cmp_flipped(self, other) ==
    LET c == BytesCmp(Iter_key(self.it), Iter_key(other.it))
    IN  Reverse(IF c = "Equal" THEN NatCmp(other.idx, self.idx) ELSE c)

\* HeapWrapper::partial_cmp
HeapWrapper_partial_cmp(self, other) ==
    LET c == BytesCmp(Iter_key(self.it), Iter_key(other.it))
    IN  Reverse(IF c = "Equal" THEN NatCmp(self.idx, other.idx) ELSE c)

\* BinaryHeap::peek on a non-empty heap
Heap_peek(iters) ==
    CHOOSE w \in iters :
        \A u \in iters : u = w \/ HeapWrapper_partial_cmp(w, u) = "Greater"

\* the j-th element (1-based) of the valid cursors of a list, and their number
RECURSIVE FilterValid(_)
FilterValid(list) ==
    IF list = <<>> THEN <<>>
    ELSE IF Iter_is_valid(Head(list))
         THEN <<Head(list)>> \o FilterValid(Tail(list))
         ELSE FilterValid(Tail(list))

\* MergeIterator::create
MergeIterator_create(list) ==
    LET valid == FilterValid(list)
    IN  [iters |-> {[idx |-> i - 1, it |-> valid[i]] : i \in 1..Len(valid)}]

\* MergeIterator::is_valid
MergeIterator_is_valid(mi) == mi.iters # {}

\* MergeIterator::key, value (called on a valid iterator only: `expect`)
MergeIterator_key(mi) == Iter_key(Heap_peek(mi.iters).it)
MergeIterator_value(mi) == Iter_value(Heap_peek(mi.iters).it)

\* the while loop of MergeIterator::next
RECURSIVE MergeNextLoop(_, _, _)
MergeNextLoop(iters, current_key, maps) ==
    LET Pushed(wrapper, r) ==
            (iters \ {wrapper}) \cup {[idx |-> wrapper.idx, it |-> r.it]}
        Popped(wrapper, r) ==
            IF ~r.ok
            THEN [ok |-> FALSE, it |-> [iters |-> Pushed(wrapper, r)]]
            ELSE MergeNextLoop(
                   IF Iter_is_valid(r.it) THEN Pushed(wrapper, r) ELSE iters \ {wrapper},
                   current_key, maps)
        Peeked(wrapper) ==
            IF Iter_key(wrapper.it) # current_key
            THEN [ok |-> TRUE, it |-> [iters |-> iters]]
            ELSE Popped(wrapper, Iter_next(wrapper.it, maps))
    IN  IF iters = {}
        THEN [ok |-> TRUE, it |-> [iters |-> iters]]
        ELSE Peeked(Heap_peek(iters))

\* MergeIterator::next: [ok, it]
MergeIterator_next(mi, maps) ==
    IF mi.iters = {}
    THEN [ok |-> TRUE, it |-> mi]
    ELSE MergeNextLoop(mi.iters, Iter_key(Heap_peek(mi.iters).it), maps)

(***************************************************************************)
(* TwoMergeIterator (iterators/two_merge_iterator.rs).                     *)
(***************************************************************************)
\* choose_a with < in place of <=
TwoMergeIterator_choose_a_strict(a, b) ==
    IF ~MergeIterator_is_valid(b) THEN TRUE
    ELSE IF ~MergeIterator_is_valid(a) THEN FALSE
    ELSE BytesLess(MergeIterator_key(a), MergeIterator_key(b))

\* the value TwoMergeIterator::choose_a assigns to self.choose_a
TwoMergeIterator_choose_a(a, b) ==
    IF ~MergeIterator_is_valid(b) THEN TRUE
    ELSE IF ~MergeIterator_is_valid(a) THEN FALSE
    ELSE BytesLeq(MergeIterator_key(a), MergeIterator_key(b))

\* TwoMergeIterator::create
TwoMergeIterator_create(a, b) ==
    [a |-> a, b |-> b, choose_a |-> TwoMergeIterator_choose_a(a, b)]

\* TwoMergeIterator::key, value, is_valid
TwoMergeIterator_key(t) ==
    IF t.choose_a THEN MergeIterator_key(t.a) ELSE MergeIterator_key(t.b)
TwoMergeIterator_value(t) ==
    IF t.choose_a THEN MergeIterator_value(t.a) ELSE MergeIterator_value(t.b)
TwoMergeIterator_is_valid(t) ==
    IF t.choose_a THEN MergeIterator_is_valid(t.a) ELSE MergeIterator_is_valid(t.b)

\* TwoMergeIterator::next: [ok, it]; an error returns before choose_a is
\* evaluated again
TwoMergeIterator_next(t, maps) ==
    LET skip_b == IF ~t.choose_a THEN TRUE
                  ELSE IF MergeIterator_is_valid(t.b)
                  THEN MergeIterator_key(t.a) = MergeIterator_key(t.b)
                  ELSE FALSE
        AfterA(rb, ra) ==
            IF ~ra.ok
            THEN [ok |-> FALSE, it |-> [t EXCEPT !.a = ra.it, !.b = rb.it]]
            ELSE [ok |-> TRUE, it |-> TwoMergeIterator_create(ra.it, rb.it)]
        AfterB(rb) ==
            IF ~rb.ok
            THEN [ok |-> FALSE, it |-> [t EXCEPT !.b = rb.it]]
            ELSE AfterA(rb, IF t.choose_a
                            THEN MergeIterator_next(t.a, maps)
                            ELSE [ok |-> TRUE, it |-> t.a])
    IN  AfterB(IF skip_b
               THEN MergeIterator_next(t.b, maps)
               ELSE [ok |-> TRUE, it |-> t.b])

(***************************************************************************)
(* LsmIterator, FusedIterator (lsm_iterator.rs).                           *)
(***************************************************************************)
\* LsmIterator::is_valid, key, value
LsmIterator_is_valid(li) == li.is_valid
LsmIterator_key(li) == TwoMergeIterator_key(li.iter)
LsmIterator_value(li) == TwoMergeIterator_value(li.iter)

\* the assignment to self.is_valid in the match on end_bound
EndBoundCheck(li) ==
    IF li.end_bound.kind = "Unbounded" THEN li.is_valid
    ELSE IF li.end_bound.kind = "Included"
    THEN BytesLeq(LsmIterator_key(li), li.end_bound.key)
    ELSE BytesLess(LsmIterator_key(li), li.end_bound.key)

\* LsmIterator::next: [ok, it]
RECURSIVE LsmIterator_next(_, _)
LsmIterator_next(li, maps) ==
    LET Checked(checked) ==
            IF LsmIterator_value(checked) # <<>>
            THEN [ok |-> TRUE, it |-> checked]
            ELSE LsmIterator_next(checked, maps)
        Moved(r, stepped) ==
            IF ~r.ok THEN [ok |-> FALSE, it |-> stepped]
            ELSE IF ~TwoMergeIterator_is_valid(r.it)
            THEN [ok |-> TRUE, it |-> [stepped EXCEPT !.is_valid = FALSE]]
            ELSE Checked([stepped EXCEPT !.is_valid = EndBoundCheck(stepped)])
        Stepped(r) == Moved(r, [li EXCEPT !.iter = r.it])
    IN  IF ~li.is_valid
        THEN [ok |-> TRUE, it |-> li]
        ELSE Stepped(TwoMergeIterator_next(li.iter, maps))

\* a constructor that does not move off a first entry with an empty value
LsmIterator_new_unskipped(iter, end_bound, maps) ==
    [ok |-> TRUE,
     it |-> [iter |-> iter, end_bound |-> end_bound,
             is_valid |-> TwoMergeIterator_is_valid(iter)]]

\* LsmIterator::new: [ok, it]
LsmIterator_new(iter, end_bound, maps) ==
    LET res == [iter |-> iter, end_bound |-> end_bound,
                is_valid |-> TwoMergeIterator_is_valid(iter)]
    IN  IF res.is_valid
        THEN (IF LsmIterator_value(res) = <<>>
              THEN LsmIterator_next(res, maps)
              ELSE [ok |-> TRUE, it |-> res])
        ELSE [ok |-> TRUE, it |-> res]

\* FusedIterator::new, is_valid, key, value
FusedIterator_new(iter) == [iter |-> iter]
FusedIterator_is_valid(f) == LsmIterator_is_valid(f.iter)
FusedIterator_key(f) == LsmIterator_key(f.iter)
FusedIterator_value(f) == LsmIterator_value(f.iter)

\* a next that forwards to the wrapped iterator in every state
FusedIterator_next_unguarded(f, maps) ==
    LET Wrap(r) == [ok |-> r.ok, it |-> [iter |-> r.it], forwarded |-> TRUE]
    IN  Wrap(LsmIterator_next(f.iter, maps))

\* FusedIterator::next: [ok, it], and whether it called next of the wrapped
\* iterator
FusedIterator_next(f, maps) ==
    LET Wrap(r) == [ok |-> r.ok, it |-> [iter |-> r.it], forwarded |-> TRUE]
    IN  IF FusedIterator_is_valid(f)
        THEN Wrap(LsmIterator_next(f.iter, maps))
        ELSE [ok |-> TRUE, it |-> f, forwarded |-> FALSE]

(***************************************************************************)
(* Variables.  The module holds six state machines that share the          *)
(* operators above; each specification runs one of them and leaves the     *)
(* variables of the others at their parked values.                         *)
(***************************************************************************)
VARIABLES
    \* LsmStorage and its threads (Spec, SpecConc)
    inners,     \* the LsmStorageInner allocations (Arc<LsmStorageInner>), by id
    slot,       \* the id of the allocation the RwLock of `inner` holds
    maps,       \* the SkipMap of every MemTable, by memtable id
    sync_lock,  \* the thread that holds sync_lock, or 0
    readers,    \* the threads that hold the read lock of `inner`
    th,         \* per thread: the operation it runs and its locals
    hist,       \* the number of writes started and, per key written, the
                \* value of its last completed write (history)
    syncs,      \* the sync started last: the result of get and the last
                \* write of every key at its start, the writes since (history)
    \* one SsTableBuilder, its SsTable and an SsTableIterator (SpecSst)
    sstPhase,   \* "building", "built", "seeked", "stepped", "panicked", or "off"
    sstBuilder, \* the SsTableBuilder
    sstAdded,   \* the entries added so far, in order (history)
    sstTable,   \* the SsTable returned by build
    sstIter,    \* [ok, it]: the result of the last seek, stepped by next
    sstProbe,   \* the key of the last create_and_seek_to_key, <<>> for seek to first
    sstOut,     \* the entries the iterator exposed since the last seek (history)
    \* one MergeIterator over given cursors (SpecMerge)
    mrgPhase,   \* "input", "running", or "off"
    mrgIn,      \* the cursors handed to MergeIterator::create
    mrgIt,      \* [ok, it]: the MergeIterator
    mrgOut,     \* the entries it exposed, in order (history)
    \* one FusedIterator<LsmIterator> over two given cursors (SpecIter)
    litPhase,   \* "input", "running", or "off"
    litA,       \* the entries of the cursor merged as A
    litB,       \* the entries of the cursor merged as B
    litBound,   \* the end bound
    litFail,    \* the position at which next of the cursor A returns Err, or 0
    litIt,      \* [ok, it]: the FusedIterator; forwarded: the last next called
                \* the wrapped iterator; past: the next calls made on the
                \* invalid iterator (history)
    litOut,     \* the entries it exposed, in order (history)
    \* one BlockBuilder, its Block and a BlockIterator (SpecBlock)
    blkPhase,   \* "building", "iterating", "panicked", or "off"
    blkBuilder, \* the BlockBuilder (as build consumed it, once built)
    blkAdded,   \* the pairs whose add returned true, in order, each as
                \* <<key, index of the value in the input set>> (history)
    blkLast,    \* the last call of add: its arguments, the builder it was
                \* called on and the bool it returned (history)
    blkIter,    \* the BlockIterator over Block::decode(build().encode())
    blkOut,     \* the entries the iterator exposed, in order (history)
    \* one TwoMergeIterator over two given cursors (SpecTwo)
    twoPhase,   \* "input", "running", or "off"
    twoA,       \* the entries of the cursor merged as A
    twoB,       \* the entries of the cursor merged as B
    twoIt,      \* [ok, it]: the TwoMergeIterator
    twoOut,     \* the entries it exposed, in order (history)
    twoCalls    \* the calls of key() and value() on a child made so far, each
                \* as <<child, the child was valid>> (history)

lsmVars == <<inners, slot, maps, sync_lock, readers, th, hist, syncs>>
sstVars == <<sstPhase, sstBuilder, sstAdded, sstTable, sstIter, sstProbe, sstOut>>
mrgVars == <<mrgPhase, mrgIn, mrgIt, mrgOut>>
litVars == <<litPhase, litA, litB, litBound, litFail, litIt, litOut>>
blkVars == <<blkPhase, blkBuilder, blkAdded, blkLast, blkIter, blkOut>>
twoVars == <<twoPhase, twoA, twoB, twoIt, twoOut, twoCalls>>
vars == <<lsmVars, sstVars, mrgVars, litVars, blkVars, twoVars>>

\* the parked values of each group of variables
LsmOff ==
    /\ inners = <<>>
    /\ slot = 0
    /\ maps = <<>>
    /\ sync_lock = 0
    /\ readers = {}
    /\ th = <<>>
    /\ hist = [started |-> 0, last |-> <<>>]
    /\ syncs = [epoch |-> 0, pre |-> <<>>, before |-> <<>>, since |-> <<>>]

NoAdd == [called |-> FALSE, n |-> 0, panic |-> FALSE, ok |-> FALSE,
          key_len |-> 0, value_len |-> 0, was_empty |-> TRUE,
          data_len |-> 0, offsets_len |-> 0, stored |-> FALSE]

BlkOff ==
    /\ blkPhase = "off"
    /\ blkBuilder = BlockBuilder_new(0)
    /\ blkAdded = <<>>
    /\ blkLast = NoAdd
    /\ blkIter = NoBlockIter
    /\ blkOut = <<>>

TwoOff ==
    /\ twoPhase = "off"
    /\ twoA = <<>>
    /\ twoB = <<>>
    /\ twoIt = [ok |-> TRUE, it |-> <<>>]
    /\ twoOut = <<>>
    /\ twoCalls = {}

MrgOff ==
    /\ mrgPhase = "off"
    /\ mrgIn = <<>>
    /\ mrgIt = [ok |-> TRUE, it |-> [iters |-> {}]]
    /\ mrgOut = <<>>

NoLitIt == [ok |-> TRUE, it |-> <<>>, forwarded |-> FALSE, past |-> 0]

LitOff ==
    /\ litPhase = "off"
    /\ litA = <<>>
    /\ litB = <<>>
    /\ litBound = Unbounded
    /\ litFail = 0
    /\ litIt = NoLitIt
    /\ litOut = <<>>

(***************************************************************************)
(* SpecSst: one SsTableBuilder fed an ascending key stream, the SsTable     *)
(* built from it, and one SsTableIterator over that table.                 *)
(***************************************************************************)
SstKeys == {KeyOf(i) : i \in 1..NumSstKeys}
SstValues == {<<>>, <<7>>}
BlockSizes == {7, 12, 20, SyncBlockSize}

NoTable == [file |-> <<>>, block_metas |-> <<>>, block_meta_offset |-> 0]
NoSstIter == [ok |-> FALSE,
              it |-> [table |-> NoTable, block_iter |-> NoBlockIter, block_idx |-> 0]]

\* the entry an iterator result exposes, as a one-element sequence, or <<>>
Exposed(r) ==
    IF r.ok /\ SsTableIterator_is_valid(r.it)
    THEN << <<SsTableIterator_key(r.it), SsTableIterator_value(r.it)>> >>
    ELSE <<>>

SstInit ==
    /\ sstPhase = "building"
    /\ \E bs \in BlockSizes : sstBuilder = SsTableBuilder_new(bs)
    /\ sstAdded = <<>>
    /\ sstTable = NoTable
    /\ sstIter = NoSstIter
    /\ sstProbe = <<>>
    /\ sstOut = <<>>

SstOff ==
    /\ sstPhase = "off"
    /\ sstBuilder = SsTableBuilder_new(SyncBlockSize)
    /\ sstAdded = <<>>
    /\ sstTable = NoTable
    /\ sstIter = NoSstIter
    /\ sstProbe = <<>>
    /\ sstOut = <<>>

\* SsTableBuilder::add on the next key of an ascending stream
SstAdd(key, value) ==
    /\ sstPhase = "building"
    /\ IF sstAdded = <<>> THEN TRUE ELSE BytesLess(sstAdded[Len(sstAdded)][1], key)
    /\ LET r == SsTableBuilder_add(sstBuilder, key, value)
       IN  /\ sstBuilder' = r.sb
           /\ sstPhase' = IF r.ok THEN "building" ELSE "panicked"
           /\ sstAdded' = IF r.ok THEN Append(sstAdded, <<key, value>>) ELSE sstAdded
    /\ UNCHANGED <<sstTable, sstIter, sstProbe, sstOut>>
    /\ UNCHANGED <<lsmVars, mrgVars, litVars, blkVars, twoVars>>

\* SsTableBuilder::build
SstBuild ==
    /\ sstPhase = "building"
    /\ sstTable' = SsTableBuilder_build(sstBuilder)
    /\ sstPhase' = "built"
    /\ UNCHANGED <<sstBuilder, sstAdded, sstIter, sstProbe, sstOut>>
    /\ UNCHANGED <<lsmVars, mrgVars, litVars, blkVars, twoVars>>

\* SsTableIterator::create_and_seek_to_key
SstSeekToKey(key) ==
    /\ sstPhase \in {"built", "seeked", "stepped"}
    /\ sstIter' = SsTableIterator_create_and_seek_to_key(sstTable, key)
    /\ sstProbe' = key
    /\ sstOut' = Exposed(sstIter')
    /\ sstPhase' = "seeked"
    /\ UNCHANGED <<sstBuilder, sstAdded, sstTable>>
    /\ UNCHANGED <<lsmVars, mrgVars, litVars, blkVars, twoVars>>

\* SsTableIterator::create_and_seek_to_first
SstSeekToFirst ==
    /\ sstPhase \in {"built", "seeked", "stepped"}
    /\ sstIter' = SsTableIterator_create_and_seek_to_first(sstTable)
    /\ sstProbe' = <<>>
    /\ sstOut' = Exposed(sstIter')
    /\ sstPhase' = "seeked"
    /\ UNCHANGED <<sstBuilder, sstAdded, sstTable>>
    /\ UNCHANGED <<lsmVars, mrgVars, litVars, blkVars, twoVars>>

\* SsTableIterator::next, on a valid iterator or up to MaxPastEnd times on
\* one that has left the last block
SstNext ==
    /\ sstPhase \in {"seeked", "stepped"}
    /\ sstIter.ok
    /\ IF SsTableIterator_is_valid(sstIter.it) THEN TRUE
       ELSE sstIter.it.block_idx < SsTable_num_of_blocks(sstTable) + MaxPastEnd
    /\ sstIter' = SsTableIterator_next(sstIter.it)
    /\ sstOut' = sstOut \o Exposed(sstIter')
    /\ sstPhase' = "stepped"
    /\ UNCHANGED <<sstBuilder, sstAdded, sstTable, sstProbe>>
    /\ UNCHANGED <<lsmVars, mrgVars, litVars, blkVars, twoVars>>

SstNextStep ==
    \/ \E key \in SstKeys, value \in SstValues : SstAdd(key, value)
    \/ SstBuild
    \/ \E key \in SstKeys : SstSeekToKey(key)
    \/ SstSeekToFirst
    \/ SstNext

InitSst == SstInit /\ LsmOff /\ MrgOff /\ LitOff /\ BlkOff /\ TwoOff

SpecSst == InitSst /\ [][SstNextStep]_vars

(***************************************************************************)
(* SpecBlock: one BlockBuilder fed any pairs, the Block built from it,     *)
(* and one BlockIterator over the Block decoded from its encoding.         *)
(***************************************************************************)
\* the largest u16
U16_MAX == 65535

\* most calls of BlockBuilder::add on one builder
MaxAdds == 3

\* a value one byte longer than a u16 length field can tell
BigValue == [i \in 1..(U16_MAX + 1) |-> 0]

\* a block size that admits BigValue together with small entries
BigBlockSize == U16_MAX + 25

BlkBlockSizes == {7, 12, 20, SyncBlockSize, BigBlockSize}

\* the values add is called with, by index
BlkValue(v) == IF v = 0 THEN <<>> ELSE IF v = 1 THEN <<7>> ELSE BigValue

\* the pairs add is called with, as <<key, index of the value>>: the key may
\* be empty, the keys come in any order
BlkEntries == ({<<>>, KeyOf(1), KeyOf(2)} \X {0, 1}) \cup {<<KeyOf(1), 2>>}

\* the pairs whose add returned true
BlkAddedPairs == [i \in DOMAIN blkAdded |-> <<blkAdded[i][1], BlkValue(blkAdded[i][2])>>]

\* the Block that build returned
BlkBuilt == BlockBuilder_build(blkBuilder).block

\* the entry a BlockIterator exposes, as a one-element sequence, or <<>>
BlockExposed(it) ==
    IF BlockIterator_is_valid(it) THEN << <<it.key, it.value>> >> ELSE <<>>

BlkInit ==
    /\ blkPhase = "building"
    /\ \E bs \in BlkBlockSizes : blkBuilder = BlockBuilder_new(bs)
    /\ blkAdded = <<>>
    /\ blkLast = NoAdd
    /\ blkIter = NoBlockIter
    /\ blkOut = <<>>

\* BlockBuilder::add
BlkAdd(key, v) ==
    /\ blkPhase = "building"
    /\ blkLast.n < MaxAdds
    /\ LET value == BlkValue(v)
           r == BlockBuilder_add(blkBuilder, key, value)
       IN  /\ blkBuilder' = r.bb
           /\ blkPhase' = IF r.panic THEN "panicked" ELSE "building"
           /\ blkAdded' = IF r.ok THEN Append(blkAdded, <<key, v>>) ELSE blkAdded
           /\ blkLast' = [called |-> TRUE, n |-> blkLast.n + 1, panic |-> r.panic,
                          ok |-> r.ok, key_len |-> Len(key), value_len |-> Len(value),
                          was_empty |-> BlockBuilder_is_empty(blkBuilder),
                          data_len |-> Len(blkBuilder.data),
                          offsets_len |-> Len(blkBuilder.offsets),
                          stored |-> IF r.bb.offsets = <<>> THEN FALSE
                                     ELSE BlockExposed(BlockIterator_seek_to(
                                              BlockIterator_new(BlockBuilder_build(r.bb).block),
                                              Len(r.bb.offsets) - 1))
                                          = << <<key, value>> >>]
    /\ UNCHANGED <<blkIter, blkOut>>
    /\ UNCHANGED <<lsmVars, sstVars, mrgVars, litVars, twoVars>>

\* BlockIterator::create_and_seek_to_first(Block::decode(&builder.build().encode())):
\* the assertion of build fails on an empty builder
BlkIterate ==
    /\ blkPhase = "building"
    /\ LET r == BlockBuilder_build(blkBuilder)
       IN  /\ blkPhase' = IF r.ok THEN "iterating" ELSE "panicked"
           /\ blkIter' = IF r.ok
                         THEN BlockIterator_create_and_seek_to_first(
                                  Block_decode(Block_encode(r.block)))
                         ELSE blkIter
    /\ blkOut' = BlockExposed(blkIter')
    /\ UNCHANGED <<blkBuilder, blkAdded, blkLast>>
    /\ UNCHANGED <<lsmVars, sstVars, mrgVars, litVars, twoVars>>

\* BlockIterator::next, on a valid iterator or up to MaxPastEnd times on
\* one that has left the block
BlkNext ==
    /\ blkPhase = "iterating"
    /\ IF BlockIterator_is_valid(blkIter) THEN TRUE
       ELSE blkIter.idx < Len(blkIter.block.offsets) + MaxPastEnd
    /\ blkIter' = BlockIterator_next(blkIter)
    /\ blkOut' = blkOut \o BlockExposed(blkIter')
    /\ UNCHANGED <<blkPhase, blkBuilder, blkAdded, blkLast>>
    /\ UNCHANGED <<lsmVars, sstVars, mrgVars, litVars, twoVars>>

BlkNextStep ==
    \/ \E e \in BlkEntries : BlkAdd(e[1], e[2])
    \/ BlkIterate
    \/ BlkNext

InitBlock == BlkInit /\ LsmOff /\ SstOff /\ MrgOff /\ LitOff /\ TwoOff

SpecBlock == InitBlock /\ [][BlkNextStep]_vars

(***************************************************************************)
(* Claims about the block format (checked under SpecBlock).                *)
(***************************************************************************)
\* the decoded block equals the built one, and the iterator over it has
\* exposed a prefix of the added pairs, all of them once it is invalid
BlockRoundTrip ==
    /\ blkIter.block.data = BlkBuilt.data
    /\ blkIter.block.offsets = BlkBuilt.offsets
    /\ Len(blkOut) <= Len(blkAdded)
    /\ blkOut = SubSeq(BlkAddedPairs, 1, Len(blkOut))
    /\ ~BlockIterator_is_valid(blkIter) => blkOut = BlkAddedPairs

\* C12: for any sequence of BlockBuilder.add calls that all returned true,
\* Block::decode(build().encode()) has the data bytes and the offsets of the
\* built block, and a BlockIterator over it enumerates exactly the added
\* pairs in insertion order and then becomes invalid.
C12_BlockRoundTrip ==
    blkPhase = "iterating" => BlockRoundTrip

\* C12 restricted to blocks whose data is shorter than 2^16 bytes: this part
\* holds.
C12_BlockRoundTripU16 ==
    (blkPhase = "iterating" /\ Len(BlkBuilt.data) <= U16_MAX) => BlockRoundTrip

\* a block of three entries, not in key order, was enumerated to its end
C12_Witness ==
    /\ blkPhase = "iterating"
    /\ Len(blkAdded) = 3
    /\ ~BlockIterator_is_valid(blkIter)
    /\ blkIter.idx > Len(blkIter.block.offsets)
    /\ BytesLess(blkAdded[2][1], blkAdded[1][1])
    /\ Len(BlkBuilt.data) <= U16_MAX

\* the condition under which the claim lets add refuse: the builder is not
\* empty and the block would grow beyond block_size
AddMayRefuse ==
    /\ ~blkLast.was_empty
    /\ blkLast.data_len + blkLast.key_len + blkLast.value_len + 3 * 2
         + blkLast.offsets_len * 2 + 2 > blkBuilder.block_size

\* C13: BlockBuilder.add on an empty builder admits the entry (returns true
\* and stores it) for every non-empty key and every value, whatever
\* block_size is; add returns false only when the builder is non-empty and
\* data_len + key_len + value_len + 3*2 + offsets_len*2 + 2 > block_size.
C13_AddAdmission ==
    (blkLast.called /\ ~blkLast.panic)
        => /\ blkLast.ok <=> ~AddMayRefuse
           /\ blkLast.was_empty => blkLast.stored

\* C13 restricted to calls on a builder that is not empty: add returns false
\* exactly under the stated condition.
C13_AddAdmissionNonEmpty ==
    (blkLast.called /\ ~blkLast.panic /\ ~blkLast.was_empty)
        => (blkLast.ok <=> ~AddMayRefuse)

\* add refused an entry on a builder that holds two entries, after it had
\* admitted the second
C13_Witness ==
    /\ blkLast.called /\ ~blkLast.panic /\ ~blkLast.ok
    /\ blkLast.offsets_len = 2

(***************************************************************************)
(* SpecMerge: MergeIterator::create on a list of cursors, each strictly    *)
(* ascending by key, then next while the iterator is valid.                *)
(***************************************************************************)
IterKeys == {KeyOf(i) : i \in 1..NumIterKeys}

\* the keys of a set in ascending order
RECURSIVE SortedKeys(_)
SortedKeys(S) ==
    IF S = {} THEN <<>> ELSE <<MinKey(S)>> \o SortedKeys(S \ {MinKey(S)})

\* the cursor over the keys of S, every entry with the given value
CursorOver(S, value) ==
    VecIter([i \in 1..Cardinality(S) |-> <<SortedKeys(S)[i], value>>])

\* the entry a MergeIterator exposes, as a one-element sequence, or <<>>
MergeExposed(r) ==
    IF r.ok /\ MergeIterator_is_valid(r.it)
    THEN << <<MergeIterator_key(r.it), MergeIterator_value(r.it)>> >>
    ELSE <<>>

\* the i-th cursor (1-based; its construction index is i - 1) holds <<i>> as
\* the value of each of its keys
MrgInit ==
    /\ mrgPhase = "input"
    /\ \E n \in 0..MaxCursors : \E f \in [1..n -> SUBSET IterKeys] :
           mrgIn = [i \in 1..n |-> CursorOver(f[i], <<i>>)]
    /\ mrgIt = [ok |-> TRUE, it |-> [iters |-> {}]]
    /\ mrgOut = <<>>

\* MergeIterator::create
MrgCreate ==
    /\ mrgPhase = "input"
    /\ mrgIt' = [ok |-> TRUE, it |-> MergeIterator_create(mrgIn)]
    /\ mrgOut' = MergeExposed(mrgIt')
    /\ mrgPhase' = "running"
    /\ UNCHANGED mrgIn
    /\ UNCHANGED <<lsmVars, sstVars, litVars, blkVars, twoVars>>

\* MergeIterator::next on a valid iterator
MrgNext ==
    /\ mrgPhase = "running"
    /\ mrgIt.ok /\ MergeIterator_is_valid(mrgIt.it)
    /\ mrgIt' = MergeIterator_next(mrgIt.it, maps)
    /\ mrgOut' = mrgOut \o MergeExposed(mrgIt')
    /\ UNCHANGED <<mrgPhase, mrgIn>>
    /\ UNCHANGED <<lsmVars, sstVars, litVars, blkVars, twoVars>>

MrgNextStep ==
    \/ MrgCreate
    \/ MrgNext

InitMerge == MrgInit /\ LsmOff /\ SstOff /\ LitOff /\ BlkOff /\ TwoOff

SpecMerge == InitMerge /\ [][MrgNextStep]_vars

(***************************************************************************)
(* SpecIter: the cursor LsmStorage::scan returns, FusedIterator over       *)
(* LsmIterator over TwoMergeIterator over two MergeIterators, here each    *)
(* over one given cursor, then next any number of times.                   *)
(***************************************************************************)
\* the entries of a cursor: per key nothing, a tombstone or the given value
EntriesOf(f, value) ==
    LET S == {k \in IterKeys : f[k] # "none"}
    IN  [i \in 1..Cardinality(S) |->
            <<SortedKeys(S)[i], IF f[SortedKeys(S)[i]] = "tomb" THEN <<>> ELSE value>>]

EndBounds == {Unbounded} \cup {Included(k) : k \in IterKeys} \cup {Excluded(k) : k \in IterKeys}

\* the entry a FusedIterator exposes, as a one-element sequence, or <<>>
FusedExposed(r) ==
    IF r.ok /\ FusedIterator_is_valid(r.it)
    THEN << <<FusedIterator_key(r.it), FusedIterator_value(r.it)>> >>
    ELSE <<>>

LitInit ==
    /\ litPhase = "input"
    /\ \E f \in [IterKeys -> {"none", "tomb", "val"}] : litA = EntriesOf(f, <<1>>)
    /\ \E f \in [IterKeys -> {"none", "tomb", "val"}] : litB = EntriesOf(f, <<2>>)
    /\ litBound \in EndBounds
    /\ litFail \in 0..Len(litA)
    /\ litIt = NoLitIt
    /\ litOut = <<>>

\* FusedIterator::new(LsmIterator::new(TwoMergeIterator::create(..), bound))
LitCreate ==
    /\ litPhase = "input"
    /\ LET r == LsmIterator_new(
                    TwoMergeIterator_create(
                        MergeIterator_create(<<VecIterFailing(litA, litFail)>>),
                        MergeIterator_create(<<VecIter(litB)>>)),
                    litBound, maps)
       IN  litIt' = [ok |-> r.ok, it |-> FusedIterator_new(r.it),
                     forwarded |-> FALSE, past |-> 0]
    /\ litOut' = FusedExposed(litIt')
    /\ litPhase' = "running"
    /\ UNCHANGED <<litA, litB, litBound, litFail>>
    /\ UNCHANGED <<lsmVars, sstVars, mrgVars, blkVars, twoVars>>

\* FusedIterator::next, on a valid iterator or up to MaxPastEnd times on an
\* invalid one; after an Err the caller stops
LitNext ==
    /\ litPhase = "running"
    /\ litIt.ok
    /\ IF FusedIterator_is_valid(litIt.it) THEN TRUE ELSE litIt.past < MaxPastEnd
    /\ LET r == FusedIterator_next(litIt.it, maps)
       IN  litIt' = [ok |-> r.ok, it |-> r.it, forwarded |-> r.forwarded,
                     past |-> IF FusedIterator_is_valid(litIt.it) THEN 0
                              ELSE litIt.past + 1]
    /\ litOut' = IF FusedIterator_is_valid(litIt.it)
                 THEN litOut \o FusedExposed(litIt')
                 ELSE litOut
    /\ UNCHANGED <<litPhase, litA, litB, litBound, litFail>>
    /\ UNCHANGED <<lsmVars, sstVars, mrgVars, blkVars, twoVars>>

LitNextStep ==
    \/ LitCreate
    \/ LitNext

InitIter == LitInit /\ LsmOff /\ SstOff /\ MrgOff /\ BlkOff /\ TwoOff

SpecIter == InitIter /\ [][LitNextStep]_vars

(***************************************************************************)
(* SpecTwo: TwoMergeIterator::create on two cursors, each strictly         *)
(* ascending by key, then next while the iterator is valid.  The calls of  *)
(* key() and value() on the children are recorded.                         *)
(***************************************************************************)
\* the calls of key() on the children that choose_a makes: `||` and `&&`
\* evaluate a.key() <= b.key() only when both children are valid
ChooseACalls(a, b) ==
    IF MergeIterator_is_valid(b) /\ MergeIterator_is_valid(a)
    THEN {<<"a", MergeIterator_is_valid(a)>>, <<"b", MergeIterator_is_valid(b)>>}
    ELSE {}

\* the calls of key() on the children that next makes before it advances
\* them: a.key() == b.key() when choose_a is set and b is valid
NextCalls(t) ==
    IF t.choose_a /\ MergeIterator_is_valid(t.b)
    THEN {<<"a", MergeIterator_is_valid(t.a)>>, <<"b", MergeIterator_is_valid(t.b)>>}
    ELSE {}

\* the calls that key() and value() of the TwoMergeIterator make
KeyCalls(t) ==
    IF t.choose_a THEN {<<"a", MergeIterator_is_valid(t.a)>>}
    ELSE {<<"b", MergeIterator_is_valid(t.b)>>}

\* the entry a TwoMergeIterator exposes, as a one-element sequence, or <<>>
TwoExposed(r) ==
    IF r.ok /\ TwoMergeIterator_is_valid(r.it)
    THEN << <<TwoMergeIterator_key(r.it), TwoMergeIterator_value(r.it)>> >>
    ELSE <<>>

\* the calls made by the caller that reads the entry, if there is one
ExposedCalls(r) ==
    IF r.ok /\ TwoMergeIterator_is_valid(r.it) THEN KeyCalls(r.it) ELSE {}

\* A holds <<1>> or a tombstone for each of its keys, B <<2>> or a tombstone
TwoInit ==
    /\ twoPhase = "input"
    /\ \E f \in [IterKeys -> {"none", "tomb", "val"}] : twoA = EntriesOf(f, <<1>>)
    /\ \E f \in [IterKeys -> {"none", "tomb", "val"}] : twoB = EntriesOf(f, <<2>>)
    /\ twoIt = [ok |-> TRUE, it |-> <<>>]
    /\ twoOut = <<>>
    /\ twoCalls = {}

\* TwoMergeIterator::create, and the caller reads the first entry
TwoCreate ==
    /\ twoPhase = "input"
    /\ LET a == MergeIterator_create(<<VecIter(twoA)>>)
           b == MergeIterator_create(<<VecIter(twoB)>>)
       IN  /\ twoIt' = [ok |-> TRUE, it |-> TwoMergeIterator_create(a, b)]
           /\ twoCalls' = ChooseACalls(a, b) \cup ExposedCalls(twoIt')
    /\ twoOut' = TwoExposed(twoIt')
    /\ twoPhase' = "running"
    /\ UNCHANGED <<twoA, twoB>>
    /\ UNCHANGED <<lsmVars, sstVars, mrgVars, litVars, blkVars>>

\* TwoMergeIterator::next on a valid iterator, and the caller reads the entry
TwoNext ==
    /\ twoPhase = "running"
    /\ twoIt.ok
    /\ TwoMergeIterator_is_valid(twoIt.it)
    /\ twoIt' = TwoMergeIterator_next(twoIt.it, maps)
    /\ twoCalls' = twoCalls \cup NextCalls(twoIt.it)
                     \cup (IF twoIt'.ok THEN ChooseACalls(twoIt'.it.a, twoIt'.it.b) ELSE {})
                     \cup ExposedCalls(twoIt')
    /\ twoOut' = twoOut \o TwoExposed(twoIt')
    /\ UNCHANGED <<twoPhase, twoA, twoB>>
    /\ UNCHANGED <<lsmVars, sstVars, mrgVars, litVars, blkVars>>

TwoNextStep ==
    \/ TwoCreate
    \/ TwoNext

InitTwo == TwoInit /\ LsmOff /\ SstOff /\ MrgOff /\ LitOff /\ BlkOff

SpecTwo == InitTwo /\ [][TwoNextStep]_vars

(***************************************************************************)
(* Claims about the SST seek (checked under SpecSst).                      *)
(***************************************************************************)
\* the positions of sstAdded whose key is >= key
AddedGeq(key) == {i \in 1..Len(sstAdded) : BytesLeq(key, sstAdded[i][1])}

\* the seek landed on the least stored key >= the probe, or is invalid when
\* there is none
SeekLanded ==
    /\ sstIter.ok
    /\ IF AddedGeq(sstProbe) = {}
       THEN ~SsTableIterator_is_valid(sstIter.it)
       ELSE LET i == CHOOSE n \in AddedGeq(sstProbe) : \A m \in AddedGeq(sstProbe) : n <= m
            IN  /\ SsTableIterator_is_valid(sstIter.it)
                /\ SsTableIterator_key(sstIter.it) = sstAdded[i][1]
                /\ SsTableIterator_value(sstIter.it) = sstAdded[i][2]

\* C10: for every SST built from a strictly ascending key stream (of any
\* number of blocks, none included) and every probe key k,
\* create_and_seek_to_key(k) leaves the iterator on the least stored key >= k,
\* and invalid exactly when k is greater than every stored key.
C10_SeekToKey ==
    (sstPhase = "seeked" /\ sstProbe # <<>>) => SeekLanded

\* C10 restricted to tables that hold at least one entry: this part holds.
C10_SeekToKeyNonEmpty ==
    (sstPhase = "seeked" /\ sstProbe # <<>> /\ sstAdded # <<>>) => SeekLanded

\* a seek into a table of several blocks that moved on to the next block
C10_Witness ==
    /\ sstPhase = "seeked" /\ sstProbe # <<>>
    /\ SsTable_num_of_blocks(sstTable) >= 3
    /\ sstIter.ok /\ SsTableIterator_is_valid(sstIter.it)
    /\ sstIter.it.block_idx = SsTable_find_block_idx(sstTable, sstProbe) + 1

NumKeys == 2
NumValues == 2
MaxWrites == 3
MaxSyncs == 2
MaxWritesConc == 2
NumThreads == 2

Keys == {KeyOf(i) : i \in 1..NumKeys}
ValueOf(i) == << i >>
Values == {ValueOf(i) : i \in 1..NumValues}

\* the bounds scan is called with: every range that is not inverted
ScanBounds == {Unbounded} \cup {Included(k) : k \in Keys} \cup {Excluded(k) : k \in Keys}
RangeOk(lower, upper) ==
    IF lower.kind = "Unbounded" THEN TRUE
    ELSE IF upper.kind = "Unbounded" THEN TRUE
    ELSE IF lower.kind = "Included" /\ upper.kind = "Included"
    THEN BytesLeq(lower.key, upper.key)
    ELSE BytesLess(lower.key, upper.key)

\* LsmStorageInner::create; memtable ids index `maps`
LsmStorageInner_create ==
    [memtable |-> 1, imm_memtables |-> <<>>, l0_sstables |-> <<>>, next_sst_id |-> 1]

\* an allocation of `inners` that is free
Freed == [memtable |-> 0, imm_memtables |-> <<>>, l0_sstables |-> <<>>, next_sst_id |-> 0]

\* Result<Option<Bytes>> of get, Result<()> of the scan
ResSome(value) == [kind |-> "Some", value |-> value]
ResNone == [kind |-> "None", value |-> <<>>]
ResErr == [kind |-> "Err", value |-> <<>>]
ResOk == [kind |-> "Ok", value |-> <<>>]
NoResult == [kind |-> "", value |-> <<>>]

\* the `if value.is_empty()` of get: an empty value is a tombstone
OptionResult(value) == IF value = <<>> THEN ResNone ELSE ResSome(value)

\* the loop of get over l0_sstables, newest first; i tables are left
RECURSIVE GetL0(_, _, _)
GetL0(l0, i, key) ==
    LET Seeked(r) ==
            IF ~r.ok THEN ResErr
            ELSE IF SsTableIterator_is_valid(r.it)
            THEN (IF SsTableIterator_key(r.it) = key
                  THEN OptionResult(SsTableIterator_value(r.it))
                  ELSE GetL0(l0, i - 1, key))
            ELSE ResNone
    IN  IF i = 0 THEN ResNone
        ELSE Seeked(SsTableIterator_create_and_seek_to_key(l0[i], key))

\* the loop of get over imm_memtables, newest first, then the loop over L0
RECURSIVE GetImmLoop(_, _, _, _)
GetImmLoop(inner, i, key, mps) ==
    IF i = 0 THEN GetL0(inner.l0_sstables, Len(inner.l0_sstables), key)
    ELSE IF key \in DOMAIN mps[inner.imm_memtables[i]]
    THEN OptionResult(mps[inner.imm_memtables[i]][key])
    ELSE GetImmLoop(inner, i - 1, key, mps)

\* LsmStorage::get run without interruption on the layer set `inner`
LsmStorage_get(inner, key, mps) ==
    IF key \in DOMAIN mps[inner.memtable]
    THEN OptionResult(mps[inner.memtable][key])
    ELSE GetImmLoop(inner, Len(inner.imm_memtables), key, mps)

\* the closure of scan that opens one SST at the lower bound: [ok, it]
ScanSstIter(sst, lower) ==
    LET Skip(r) ==
            IF ~r.ok THEN r
            ELSE IF SsTableIterator_is_valid(r.it)
            THEN (IF SsTableIterator_key(r.it) = lower.key
                  THEN SsTableIterator_next(r.it)
                  ELSE r)
            ELSE r
    IN  IF lower.kind = "Unbounded" THEN SsTableIterator_create_and_seek_to_first(sst)
        ELSE IF lower.kind = "Included"
        THEN SsTableIterator_create_and_seek_to_key(sst, lower.key)
        ELSE Skip(SsTableIterator_create_and_seek_to_key(sst, lower.key))

\* sst_iter of scan: the cursors over l0[1..i], newest first, [ok, list];
\* the first error ends the collection
RECURSIVE ScanSstIters(_, _, _)
ScanSstIters(l0, i, lower) ==
    LET Rest(r, rest) ==
            IF ~r.ok THEN [ok |-> FALSE, list |-> <<>>]
            ELSE IF ~rest.ok THEN rest
            ELSE [ok |-> TRUE, list |-> <<SstIter(r.it)>> \o rest.list]
    IN  IF i = 0 THEN [ok |-> TRUE, list |-> <<>>]
        ELSE Rest(ScanSstIter(l0[i], lower), ScanSstIters(l0, i - 1, lower))

\* mt_iter of scan: the active memtable, then imm_memtables newest first
ScanMemIters(inner, lower, upper, mps) ==
    <<MemTable_scan(inner.memtable, lower, upper, mps)>> \o
    [j \in 1..Len(inner.imm_memtables) |->
        MemTable_scan(inner.imm_memtables[Len(inner.imm_memtables) + 1 - j],
                      lower, upper, mps)]

\* the iterator scan returns on the layer set `inner`: [ok, it]
LsmStorage_scan(inner, lower, upper, mps) ==
    LET Fuse(r) == [ok |-> r.ok, it |-> FusedIterator_new(r.it)]
        Merge(ssts) ==
            IF ~ssts.ok
            THEN [ok |-> FALSE, it |-> FusedIterator_new(<<>>)]
            ELSE Fuse(LsmIterator_new(
                   TwoMergeIterator_create(
                       MergeIterator_create(ScanMemIters(inner, lower, upper, mps)),
                       MergeIterator_create(ssts.list)),
                   upper, mps))
    IN  Merge(ScanSstIters(inner.l0_sstables, Len(inner.l0_sstables), lower))

\* the locals of a thread that runs no operation
NoScanIter ==
    FusedIterator_new([iter |-> TwoMergeIterator_create([iters |-> {}], [iters |-> {}]),
                       end_bound |-> Unbounded, is_valid |-> FALSE])
NoPrev == [key |-> <<>>, value |-> <<>>]
IdleThread ==
    [pc |-> "idle",
     key |-> <<>>, value |-> <<>>, lower |-> Unbounded, upper |-> Unbounded,
     snap |-> 0,            \* get, scan: the allocation `inner` refers to, or 0
     i |-> 0,               \* get: the imm_memtables not yet read
     result |-> NoResult,   \* get, scan: the result to return
     iter |-> NoScanIter,   \* scan: the iterator returned
     out |-> <<>>,          \* scan: the entries the iterator exposed (history)
     target |-> 0,          \* put, delete: the memtable reached through the read guard
     memtable |-> 0,        \* sync: the memtable frozen
     frozen |-> <<>>,       \* sync: what that memtable held when frozen (history)
     sst_id |-> 0,          \* sync: the id for the SST
     builder |-> SsTableBuilder_new(SyncBlockSize),
     sst |-> NoTable,       \* sync: the SST built
     in_sync |-> FALSE,     \* the snapshot was taken during the sync of `syncs` (history)
     after_fail |-> FALSE,  \* the snapshot was taken after a sync had panicked (history)
     prev |-> NoPrev]       \* the put this thread completed last, if it did
                            \* nothing since (history)

\* history of the syncs: the number started, what get returned and what was
\* written before the last one started, what was written since, and the ids
\* passed to SsTableBuilder::build of the SSTs pushed, in the order pushed
NoSync == [epoch |-> 0, pre |-> <<>>, before |-> <<>>, since |-> <<>>, ids |-> <<>>]

\* the state after LsmStorage::open, with n threads
LsmInit(n) ==
    /\ inners = [a \in 1..(n + 1) |-> IF a = 1 THEN LsmStorageInner_create ELSE Freed]
    /\ slot = 1
    /\ maps = <<MemTable_create>>
    /\ sync_lock = 0
    /\ readers = {}
    /\ th = [t \in 1..n |-> IdleThread]
    /\ hist = [started |-> 0, last |-> <<>>]
    /\ syncs = NoSync

\* Arc::make_mut that never clones: the allocation is mutated in place
MakeMut_in_place(inner) ==
    /\ inners' = [inners EXCEPT ![slot] = inner]
    /\ slot' = slot

\* Arc::make_mut on the Arc that the lock holds, followed by the assignment
\* of `inner`: a snapshot that still refers to the allocation forces a clone
MakeMut(inner) ==
    IF \E u \in DOMAIN th : th[u].snap = slot
    THEN LET a == CHOOSE b \in DOMAIN inners :
                    /\ inners[b] = Freed
                    /\ \A c \in 1..(b - 1) : inners[c] # Freed
         IN  /\ inners' = [inners EXCEPT ![a] = inner]
             /\ slot' = a
    ELSE /\ inners' = [inners EXCEPT ![slot] = inner]
         /\ slot' = slot

\* drop of the snapshot of thread t: the last reference frees the allocation
DropSnapshot(t) ==
    IF th[t].snap # slot /\ \A u \in DOMAIN th : u = t \/ th[u].snap # th[t].snap
    THEN inners' = [inners EXCEPT ![th[t].snap] = Freed]
    ELSE inners' = inners

\* a completed write, recorded in the histories
Written(key, value) ==
    /\ hist' = [hist EXCEPT !.last = MemTable_put(@, key, value)]
    /\ syncs' = IF syncs.epoch = 0 THEN syncs
                ELSE [syncs EXCEPT !.since =
                        [k \in (DOMAIN syncs.since) \cup {key} |->
                           IF k = key
                           THEN (IF key \in DOMAIN syncs.since
                                 THEN syncs.since[key] \cup {value} ELSE {value})
                           ELSE syncs.since[k]]]

\* thread u after another thread wrote key: its own put of that key is no
\* longer the last write of the key
Overwritten(u, key) ==
    IF th[u].prev.key = key THEN [th[u] EXCEPT !.prev = NoPrev] ELSE th[u]

\* put without its assertions
PutBegin_unchecked(t, key, value, cap) ==
    /\ th[t].pc = "idle"
    /\ hist.started < cap
    /\ th' = [th EXCEPT ![t] = [@ EXCEPT !.pc = "put", !.key = key, !.value = value,
                                         !.target = inners[slot].memtable,
                                         !.prev = NoPrev]]
    /\ readers' = readers \cup {t}
    /\ hist' = [hist EXCEPT !.started = @ + 1]
    /\ UNCHANGED <<inners, slot, maps, sync_lock, syncs>>
    /\ UNCHANGED <<sstVars, mrgVars, litVars, blkVars, twoVars>>

\* put, lines 100-102: an assertion fails and the call is rejected, or both
\* hold and the read lock is taken
PutBegin(t, key, value, cap) ==
    /\ th[t].pc = "idle"
    /\ hist.started < cap
    /\ IF value = <<>> \/ key = <<>>
       THEN /\ th' = [th EXCEPT ![t] = [@ EXCEPT !.pc = "rejected", !.key = key,
                                                !.value = value, !.prev = NoPrev]]
            /\ UNCHANGED <<readers, hist>>
       ELSE /\ th' = [th EXCEPT ![t] = [@ EXCEPT !.pc = "put", !.key = key,
                                                !.value = value,
                                                !.target = inners[slot].memtable,
                                                !.prev = NoPrev]]
            /\ readers' = readers \cup {t}
            /\ hist' = [hist EXCEPT !.started = @ + 1]
    /\ UNCHANGED <<inners, slot, maps, sync_lock, syncs>>
    /\ UNCHANGED <<sstVars, mrgVars, litVars, blkVars, twoVars>>

\* put, lines 103-104: insert into the active memtable, release the lock
PutInsert(t) ==
    /\ th[t].pc = "put"
    /\ maps' = [maps EXCEPT ![th[t].target] =
                  MemTable_put(@, th[t].key, th[t].value)]
    /\ readers' = readers \ {t}
    /\ Written(th[t].key, th[t].value)
    /\ th' = [u \in DOMAIN th |->
                IF u = t
                THEN [IdleThread EXCEPT
                        !.prev = [key |-> th[t].key, value |-> th[t].value]]
                ELSE Overwritten(u, th[t].key)]
    /\ UNCHANGED <<inners, slot, sync_lock>>
    /\ UNCHANGED <<sstVars, mrgVars, litVars, blkVars, twoVars>>

\* delete, lines 108-110: the assertion fails and the call is rejected, or
\* it holds and the read lock is taken
DeleteBegin(t, key, cap) ==
    /\ th[t].pc = "idle"
    /\ hist.started < cap
    /\ IF key = <<>>
       THEN /\ th' = [th EXCEPT ![t] = [@ EXCEPT !.pc = "rejected", !.key = key,
                                                !.prev = NoPrev]]
            /\ UNCHANGED <<readers, hist>>
       ELSE /\ th' = [th EXCEPT ![t] = [@ EXCEPT !.pc = "delete", !.key = key,
                                                !.target = inners[slot].memtable,
                                                !.prev = NoPrev]]
            /\ readers' = readers \cup {t}
            /\ hist' = [hist EXCEPT !.started = @ + 1]
    /\ UNCHANGED <<inners, slot, maps, sync_lock, syncs>>
    /\ UNCHANGED <<sstVars, mrgVars, litVars, blkVars, twoVars>>

\* delete, lines 110-111: put of the empty value
DeleteInsert(t) ==
    /\ th[t].pc = "delete"
    /\ maps' = [maps EXCEPT ![th[t].target] = MemTable_put(@, th[t].key, <<>>)]
    /\ readers' = readers \ {t}
    /\ Written(th[t].key, <<>>)
    /\ th' = [u \in DOMAIN th |->
                IF u = t THEN IdleThread ELSE Overwritten(u, th[t].key)]
    /\ UNCHANGED <<inners, slot, sync_lock>>
    /\ UNCHANGED <<sstVars, mrgVars, litVars, blkVars, twoVars>>

\* get, line 66: clone of the Arc under the read lock
GetSnapshot(t, key) ==
    /\ th[t].pc = "idle"
    /\ th' = [th EXCEPT ![t] = [@ EXCEPT !.pc = "get_mem", !.key = key, !.snap = slot,
                                         !.in_sync = (sync_lock # 0),
                                         !.after_fail =
                                             \E u \in DOMAIN th : th[u].pc = "panicked"]]
    /\ UNCHANGED <<inners, slot, maps, sync_lock, readers, hist, syncs>>
    /\ UNCHANGED <<sstVars, mrgVars, litVars, blkVars, twoVars>>

\* get, lines 67-72: the active memtable of the snapshot
GetMem(t) ==
    /\ th[t].pc = "get_mem"
    /\ LET r == MemTable_get(maps[inners[th[t].snap].memtable], th[t].key)
       IN  th' = [th EXCEPT ![t] =
                    IF r.some
                    THEN [@ EXCEPT !.pc = "got", !.result = OptionResult(r.value)]
                    ELSE [@ EXCEPT !.pc = "get_imm",
                                   !.i = Len(inners[th[t].snap].imm_memtables)]]
    /\ UNCHANGED <<inners, slot, maps, sync_lock, readers, hist, syncs>>
    /\ UNCHANGED <<sstVars, mrgVars, litVars, blkVars, twoVars>>

\* get, lines 74-81: one turn of the loop over imm_memtables, or its end
GetImm(t) ==
    /\ th[t].pc = "get_imm"
    /\ th' = [th EXCEPT ![t] =
                IF th[t].i = 0 THEN [@ EXCEPT !.pc = "get_l0"]
                ELSE LET r == MemTable_get(
                                maps[inners[th[t].snap].imm_memtables[th[t].i]], th[t].key)
                     IN  IF r.some
                         THEN [@ EXCEPT !.pc = "got", !.result = OptionResult(r.value)]
                         ELSE [@ EXCEPT !.i = @ - 1]]
    /\ UNCHANGED <<inners, slot, maps, sync_lock, readers, hist, syncs>>
    /\ UNCHANGED <<sstVars, mrgVars, litVars, blkVars, twoVars>>

\* get, lines 83-96: the loop over l0_sstables
GetSst(t) ==
    /\ th[t].pc = "get_l0"
    /\ th' = [th EXCEPT ![t] =
                [@ EXCEPT !.pc = "got",
                          !.result = GetL0(inners[th[t].snap].l0_sstables,
                                           Len(inners[th[t].snap].l0_sstables),
                                           th[t].key)]]
    /\ UNCHANGED <<inners, slot, maps, sync_lock, readers, hist, syncs>>
    /\ UNCHANGED <<sstVars, mrgVars, litVars, blkVars, twoVars>>

\* get returns: the snapshot is dropped
GetReturn(t) ==
    /\ th[t].pc = "got"
    /\ DropSnapshot(t)
    /\ th' = [th EXCEPT ![t] = IdleThread]
    /\ UNCHANGED <<slot, maps, sync_lock, readers, hist, syncs>>
    /\ UNCHANGED <<sstVars, mrgVars, litVars, blkVars, twoVars>>

\* sync that takes no sync_lock
SyncLock_unlocked(t) ==
    /\ th[t].pc = "idle"
    /\ inners[slot].next_sst_id <= MaxSyncs
    /\ sync_lock' = t
    /\ th' = [u \in DOMAIN th |->
                IF u = t THEN [IdleThread EXCEPT !.pc = "sync_freeze"]
                ELSE [th[u] EXCEPT !.in_sync = FALSE]]
    /\ syncs' = [epoch |-> syncs.epoch + 1,
                 pre |-> [k \in Keys |-> LsmStorage_get(inners[slot], k, maps)],
                 before |-> hist.last,
                 since |-> <<>>,
                 ids |-> syncs.ids]
    /\ UNCHANGED <<inners, slot, maps, readers, hist>>
    /\ UNCHANGED <<sstVars, mrgVars, litVars, blkVars, twoVars>>

\* sync, line 119: sync_lock is taken
SyncLock(t) ==
    /\ th[t].pc = "idle"
    /\ sync_lock = 0
    /\ inners[slot].next_sst_id <= MaxSyncs
    /\ sync_lock' = t
    /\ th' = [u \in DOMAIN th |->
                IF u = t THEN [IdleThread EXCEPT !.pc = "sync_freeze"]
                ELSE [th[u] EXCEPT !.in_sync = FALSE]]
    /\ syncs' = [epoch |-> syncs.epoch + 1,
                 pre |-> [k \in Keys |-> LsmStorage_get(inners[slot], k, maps)],
                 before |-> hist.last,
                 since |-> <<>>,
                 ids |-> syncs.ids]
    /\ UNCHANGED <<inners, slot, maps, readers, hist>>
    /\ UNCHANGED <<sstVars, mrgVars, litVars, blkVars, twoVars>>

\* a freeze that does not wait for the readers of `inner`
SyncFreeze_no_write_lock(t) ==
    /\ th[t].pc = "sync_freeze"
    /\ maps' = Append(maps, MemTable_create)
    /\ MakeMut([inners[slot] EXCEPT
                  !.memtable = Len(maps) + 1,
                  !.imm_memtables = Append(@, inners[slot].memtable)])
    /\ th' = [th EXCEPT ![t] = [@ EXCEPT !.pc = "sync_flush",
                                         !.memtable = inners[slot].memtable,
                                         !.frozen = maps[inners[slot].memtable],
                                         !.sst_id = inners[slot].next_sst_id,
                                         !.builder = SsTableBuilder_new(SyncBlockSize)]]
    /\ UNCHANGED <<sync_lock, readers, hist, syncs>>
    /\ UNCHANGED <<sstVars, mrgVars, litVars, blkVars, twoVars>>

\* sync, lines 122-131: under the write lock the active memtable moves to
\* imm_memtables and a new one takes its place
SyncFreeze(t) ==
    /\ th[t].pc = "sync_freeze"
    /\ readers = {}
    /\ maps' = Append(maps, MemTable_create)
    /\ MakeMut([inners[slot] EXCEPT
                  !.memtable = Len(maps) + 1,
                  !.imm_memtables = Append(@, inners[slot].memtable)])
    /\ th' = [th EXCEPT ![t] = [@ EXCEPT !.pc = "sync_flush",
                                         !.memtable = inners[slot].memtable,
                                         !.frozen = maps[inners[slot].memtable],
                                         !.sst_id = inners[slot].next_sst_id,
                                         !.builder = SsTableBuilder_new(SyncBlockSize)]]
    /\ UNCHANGED <<sync_lock, readers, hist, syncs>>
    /\ UNCHANGED <<sstVars, mrgVars, litVars, blkVars, twoVars>>

\* a flush that hands no tombstone to the builder
SyncFlushEntry_no_tombstones(t) ==
    /\ th[t].pc = "sync_flush"
    /\ maps[th[t].memtable] # <<>>
    /\ LET e == SkipMap_pop_front(maps[th[t].memtable])
           r == IF e.value = <<>> THEN [ok |-> TRUE, sb |-> th[t].builder]
                ELSE SsTableBuilder_add(th[t].builder, e.key, e.value)
       IN  /\ maps' = [maps EXCEPT ![th[t].memtable] = e.rest]
           /\ th' = [th EXCEPT ![t] = [@ EXCEPT !.builder = r.sb,
                                                !.pc = IF r.ok THEN "sync_flush"
                                                       ELSE "panicked"]]
           /\ sync_lock' = IF r.ok THEN sync_lock ELSE 0
    /\ UNCHANGED <<inners, slot, readers, hist, syncs>>
    /\ UNCHANGED <<sstVars, mrgVars, litVars, blkVars, twoVars>>

\* MemTable::flush, one turn of the loop: pop_front and builder.add; a
\* panic of add unwinds the sync and releases sync_lock
SyncFlushEntry(t) ==
    /\ th[t].pc = "sync_flush"
    /\ maps[th[t].memtable] # <<>>
    /\ LET e == SkipMap_pop_front(maps[th[t].memtable])
           r == SsTableBuilder_add(th[t].builder, e.key, e.value)
       IN  /\ maps' = [maps EXCEPT ![th[t].memtable] = e.rest]
           /\ th' = [th EXCEPT ![t] = [@ EXCEPT !.builder = r.sb,
                                                !.pc = IF r.ok THEN "sync_flush"
                                                       ELSE "panicked"]]
           /\ sync_lock' = IF r.ok THEN sync_lock ELSE 0
    /\ UNCHANGED <<inners, slot, readers, hist, syncs>>
    /\ UNCHANGED <<sstVars, mrgVars, litVars, blkVars, twoVars>>

\* MemTable::flush ends on the empty map; sync, lines 134-138: build
SyncBuild(t) ==
    /\ th[t].pc = "sync_flush"
    /\ maps[th[t].memtable] = <<>>
    /\ th' = [th EXCEPT ![t] = [@ EXCEPT !.pc = "sync_promote",
                                         !.sst = SsTableBuilder_build(th[t].builder)]]
    /\ UNCHANGED <<inners, slot, maps, sync_lock, readers, hist, syncs>>
    /\ UNCHANGED <<sstVars, mrgVars, litVars, blkVars, twoVars>>

\* the second write-lock section of sync without its last line
SyncPromote_same_id(t) ==
    /\ th[t].pc = "sync_promote"
    /\ readers = {}
    /\ MakeMut([inners[slot] EXCEPT
                  !.imm_memtables = SubSeq(@, 1, Len(@) - 1),
                  !.l0_sstables = Append(@, th[t].sst)])
    /\ th' = [th EXCEPT ![t] = [@ EXCEPT !.pc = "synced"]]
    /\ syncs' = [syncs EXCEPT !.ids = Append(@, th[t].sst_id)]
    /\ UNCHANGED <<maps, sync_lock, readers, hist>>
    /\ UNCHANGED <<sstVars, mrgVars, litVars, blkVars, twoVars>>

\* sync, lines 140-144: under the write lock the SST replaces the newest
\* immutable memtable
SyncPromote(t) ==
    /\ th[t].pc = "sync_promote"
    /\ readers = {}
    /\ MakeMut([inners[slot] EXCEPT
                  !.imm_memtables = SubSeq(@, 1, Len(@) - 1),
                  !.l0_sstables = Append(@, th[t].sst),
                  !.next_sst_id = @ + 1])
    /\ th' = [th EXCEPT ![t] = [@ EXCEPT !.pc = "synced"]]
    /\ syncs' = [syncs EXCEPT !.ids = Append(@, th[t].sst_id)]
    /\ UNCHANGED <<maps, sync_lock, readers, hist>>
    /\ UNCHANGED <<sstVars, mrgVars, litVars, blkVars, twoVars>>

\* sync, lines 146-147: Ok(()) and the drop of _sync_guard
SyncReturn(t) ==
    /\ th[t].pc = "synced"
    /\ sync_lock' = 0
    /\ th' = [th EXCEPT ![t] = IdleThread]
    /\ UNCHANGED <<inners, slot, maps, readers, hist, syncs>>
    /\ UNCHANGED <<sstVars, mrgVars, litVars, blkVars, twoVars>>

\* scan, line 155: clone of the Arc under the read lock
ScanSnapshot(t, lower, upper) ==
    /\ th[t].pc = "idle"
    /\ RangeOk(lower, upper)
    /\ th' = [th EXCEPT ![t] = [@ EXCEPT !.pc = "scan_create", !.lower = lower,
                                         !.upper = upper, !.snap = slot,
                                         !.prev = NoPrev]]
    /\ UNCHANGED <<inners, slot, maps, sync_lock, readers, hist, syncs>>
    /\ UNCHANGED <<sstVars, mrgVars, litVars, blkVars, twoVars>>

\* scan, lines 156-190: the iterators are built and the snapshot is dropped
ScanCreate(t) ==
    /\ th[t].pc = "scan_create"
    /\ LET r == LsmStorage_scan(inners[th[t].snap], th[t].lower, th[t].upper, maps)
       IN  th' = [th EXCEPT ![t] =
                    IF r.ok
                    THEN [@ EXCEPT !.pc = "scanning", !.iter = r.it, !.snap = 0]
                    ELSE [@ EXCEPT !.pc = "scanned", !.result = ResErr, !.snap = 0]]
    /\ DropSnapshot(t)
    /\ UNCHANGED <<slot, maps, sync_lock, readers, hist, syncs>>
    /\ UNCHANGED <<sstVars, mrgVars, litVars, blkVars, twoVars>>

\* the caller reads the entry of the iterator and calls next, until the
\* iterator is invalid
ScanNext(t) ==
    /\ th[t].pc = "scanning"
    /\ th' = [th EXCEPT ![t] =
                IF ~FusedIterator_is_valid(th[t].iter)
                THEN [@ EXCEPT !.pc = "scanned", !.result = ResOk]
                ELSE LET r == FusedIterator_next(th[t].iter, maps)
                     IN  [@ EXCEPT
                            !.out = Append(@, <<FusedIterator_key(th[t].iter),
                                                FusedIterator_value(th[t].iter)>>),
                            !.iter = r.it,
                            !.pc = IF r.ok THEN "scanning" ELSE "scanned",
                            !.result = IF r.ok THEN NoResult ELSE ResErr]]
    /\ UNCHANGED <<inners, slot, maps, sync_lock, readers, hist, syncs>>
    /\ UNCHANGED <<sstVars, mrgVars, litVars, blkVars, twoVars>>

\* the caller drops the iterator
ScanReturn(t) ==
    /\ th[t].pc = "scanned"
    /\ th' = [th EXCEPT ![t] = IdleThread]
    /\ UNCHANGED <<inners, slot, maps, sync_lock, readers, hist, syncs>>
    /\ UNCHANGED <<sstVars, mrgVars, litVars, blkVars, twoVars>>

\* the panic of a rejected put or delete has unwound to the caller, which
\* goes on
Unwind(t) ==
    /\ th[t].pc = "rejected"
    /\ th' = [th EXCEPT ![t] = IdleThread]
    /\ UNCHANGED <<inners, slot, maps, sync_lock, readers, hist, syncs>>
    /\ UNCHANGED <<sstVars, mrgVars, litVars, blkVars, twoVars>>

\* a step of thread t, with at most cap writes in all, of the given keys
\* and values
LsmStep(t, cap, keys, values) ==
    \/ \E key \in keys, value \in values : PutBegin(t, key, value, cap)
    \/ PutInsert(t)
    \/ \E key \in keys : DeleteBegin(t, key, cap)
    \/ DeleteInsert(t)
    \/ \E key \in Keys : GetSnapshot(t, key)
    \/ GetMem(t)
    \/ GetImm(t)
    \/ GetSst(t)
    \/ GetReturn(t)
    \/ SyncLock(t)
    \/ SyncFreeze(t)
    \/ SyncFlushEntry(t)
    \/ SyncBuild(t)
    \/ SyncPromote(t)
    \/ SyncReturn(t)

ScanStep(t) ==
    \/ \E lower \in ScanBounds, upper \in ScanBounds : ScanSnapshot(t, lower, upper)
    \/ ScanCreate(t)
    \/ ScanNext(t)
    \/ ScanReturn(t)

\* one thread; put and delete are also called with an empty key or value
Next ==
    \/ LsmStep(1, MaxWrites, Keys \cup {<<>>}, Values \cup {<<>>})
    \/ Unwind(1)
    \/ ScanStep(1)

NextConc == \E t \in 1..NumThreads : LsmStep(t, MaxWritesConc, Keys, {ValueOf(1)})

Init == LsmInit(1) /\ SstOff /\ MrgOff /\ LitOff /\ BlkOff /\ TwoOff
InitConc == LsmInit(NumThreads) /\ SstOff /\ MrgOff /\ LitOff /\ BlkOff /\ TwoOff

Spec == Init /\ [][Next]_vars
SpecConc == InitConc /\ [][NextConc]_vars

(***************************************************************************)
(* SpecFail: thread 1 writes and syncs, thread 2 reads; a value may be too *)
(* large for a block of SyncBlockSize bytes, which makes the flush panic.  *)
(***************************************************************************)
MaxWritesFail == 2

\* a value that no block of the SSTs of sync admits
BigPut == [i \in 1..SyncBlockSize |-> 0]

\* a value of which a block of the SSTs of sync admits one, and not two
HalfPut == [i \in 1..(SyncBlockSize \div 2) |-> 0]

FailValues == {ValueOf(1), HalfPut, BigPut}

NextFail ==
    \/ \E key \in Keys, value \in FailValues : PutBegin(1, key, value, MaxWritesFail)
    \/ PutInsert(1)
    \/ \E key \in Keys : DeleteBegin(1, key, MaxWritesFail)
    \/ DeleteInsert(1)
    \/ SyncLock(1)
    \/ SyncFreeze(1)
    \/ SyncFlushEntry(1)
    \/ SyncBuild(1)
    \/ SyncPromote(1)
    \/ SyncReturn(1)
    \/ \E key \in Keys : GetSnapshot(2, key)
    \/ GetMem(2)
    \/ GetImm(2)
    \/ GetSst(2)
    \/ GetReturn(2)

InitFail == LsmInit(2) /\ SstOff /\ MrgOff /\ LitOff /\ BlkOff /\ TwoOff

SpecFail == InitFail /\ [][NextFail]_vars

(***************************************************************************)
(* Fair scheduling.  A thread inside an operation goes on (weak fairness   *)
(* of each of its steps); a thread never has to start an operation.  The   *)
(* write lock of `inner` is a parking_lot RwLock, whose policy lets no     *)
(* waiting writer starve (strong fairness of the two steps that take it).  *)
(***************************************************************************)
\* what a get can return
GetResults == {ResErr, ResNone} \cup {OptionResult(v) : v \in FailValues \cup Values}

\* the step of GetSst(t) whatever the tables hold: it is enabled in the states
\* where GetSst(t) is, and the steps of thread t at "get_l0" are those of
\* GetSst(t), so that fairness of the one is fairness of the other
GetSstAny(t) ==
    /\ th[t].pc = "get_l0"
    /\ \E r \in GetResults :
           th' = [th EXCEPT ![t] = [@ EXCEPT !.pc = "got", !.result = r]]
    /\ UNCHANGED <<inners, slot, maps, sync_lock, readers, hist, syncs>>
    /\ UNCHANGED <<sstVars, mrgVars, litVars, blkVars, twoVars>>

\* the steps by which thread t goes on inside an operation without taking
\* the write lock
Continue(t) ==
    \/ PutInsert(t)
    \/ DeleteInsert(t)
    \/ GetMem(t)
    \/ GetImm(t)
    \/ GetSstAny(t)
    \/ GetReturn(t)
    \/ SyncFlushEntry(t)
    \/ SyncBuild(t)
    \/ SyncReturn(t)

FairThread(t) ==
    /\ WF_vars(Continue(t))
    /\ SF_vars(SyncFreeze(t))
    /\ SF_vars(SyncPromote(t))

\* SpecConc under fair scheduling
SpecConcLive == SpecConc /\ \A t \in 1..NumThreads : FairThread(t)

(***************************************************************************)
(* SpecLive: every thread writes, reads and syncs, a value may be too      *)
(* large for a block, and the scheduling is fair.                          *)
(***************************************************************************)
MaxWritesLive == 1

NextLive ==
    \E t \in 1..NumThreads : LsmStep(t, MaxWritesLive, {KeyOf(1)}, {ValueOf(1), BigPut})

SpecLive ==
    /\ InitConc
    /\ [][NextLive]_vars
    /\ \A t \in 1..NumThreads : FairThread(t)

(***************************************************************************)
(* Claims about LsmStorage run by one thread (checked under Spec).         *)
(***************************************************************************)
\* C1: read-your-writes over single-threaded histories: after put(k, v) with
\* non-empty v, every get(k) returns v until a later put or delete of k,
\* whatever syncs and writes to other keys happen in between.
C1_ReadYourWrites ==
    \A t \in DOMAIN th :
        IF th[t].pc = "got" /\ th[t].key \in DOMAIN hist.last
        THEN (hist.last[th[t].key] # <<>>
                => th[t].result = ResSome(hist.last[th[t].key]))
        ELSE TRUE

\* C2: delete visibility: after delete(k) and no later put of k, get(k)
\* returns Ok(None), not a value and not an error, after any number of syncs,
\* syncs of an empty memtable included.
C2_DeleteVisibility ==
    \A t \in DOMAIN th :
        IF th[t].pc = "got" /\ th[t].key \in DOMAIN hist.last
        THEN (hist.last[th[t].key] = <<>> => th[t].result = ResNone)
        ELSE TRUE

\* the entries the reference map holds inside the bounds, ascending by key
RefScan(last, lower, upper) ==
    LET S == {k \in DOMAIN last :
                last[k] # <<>> /\ AboveLower(lower, k) /\ BelowUpper(upper, k)}
    IN  [i \in 1..Cardinality(S) |-> <<SortedKeys(S)[i], last[SortedKeys(S)[i]]>>]

\* C6: with no operation running concurrently, scan(lower, upper) followed
\* by next until the iterator is invalid enumerates, ascending and each once,
\* exactly the keys inside the bounds whose most recent write is a put, each
\* with the value of that put.
C6_ScanEqualsReference ==
    \A t \in DOMAIN th :
        th[t].pc = "scanned"
            => /\ th[t].result = ResOk
               /\ th[t].out = RefScan(hist.last, th[t].lower, th[t].upper)

\* C7: whenever the cursor returned by scan is valid, its current key
\* satisfies the end bound, the first entry after construction included,
\* also when the smallest key comes from an L0 SST.
C7_UpperBound ==
    \A t \in DOMAIN th :
        IF th[t].pc = "scanning" /\ FusedIterator_is_valid(th[t].iter)
        THEN BelowUpper(th[t].upper, FusedIterator_key(th[t].iter))
        ELSE TRUE

(***************************************************************************)
(* Claims about LsmStorage run by two threads (checked under SpecConc).    *)
(***************************************************************************)
\* C3: for a key written before a sync started and not written since, a
\* get by another thread that takes its snapshot at any point of the sync
\* returns what a get issued before the sync started returned.
C3_ReaderConsistency ==
    \A t \in DOMAIN th :
        IF /\ th[t].pc = "got"
           /\ th[t].in_sync
           /\ th[t].key \in DOMAIN syncs.before
           /\ th[t].key \notin DOMAIN syncs.since
        THEN th[t].result = syncs.pre[th[t].key]
        ELSE TRUE

\* C5: a thread that completes put(k, v) and next calls get(k), no other
\* thread writing k, gets v, also while another thread runs a sync.
C5_PutThenGet ==
    \A t \in DOMAIN th :
        IF th[t].pc = "got" /\ th[t].prev.key = th[t].key
        THEN th[t].result = ResSome(th[t].prev.value)
        ELSE TRUE

\* the entries of a block from the position of a BlockIterator on
RECURSIVE BlockEntries(_)
BlockEntries(bi) ==
    IF BlockIterator_is_valid(bi)
    THEN << <<bi.key, bi.value>> >> \o BlockEntries(BlockIterator_next(bi))
    ELSE <<>>

\* the entries of the blocks idx, idx + 1, ... of an SST
RECURSIVE TableEntries(_, _)
TableEntries(t, idx) ==
    IF idx >= SsTable_num_of_blocks(t) THEN <<>>
    ELSE BlockEntries(BlockIterator_create_and_seek_to_first(
                          SsTable_read_block(t, idx).block))
         \o TableEntries(t, idx + 1)

\* the SST holds key, with one of the values
SstHolds(t, key, values) ==
    \E i \in DOMAIN TableEntries(t, 0) :
        /\ TableEntries(t, 0)[i][1] = key
        /\ TableEntries(t, 0)[i][2] \in values

\* the newest SST of l0 that holds key holds it with one of the values
L0Holds(l0, key, values) ==
    \E i \in DOMAIN l0 :
        /\ SstHolds(l0[i], key, values)
        /\ \A j \in (i + 1)..Len(l0) : ~SstHolds(l0[j], key, Values \cup {<<>>})

\* the values written to key since the sync started
SinceValues(key) == IF key \in DOMAIN syncs.since THEN syncs.since[key] ELSE {}

\* every write completed since the sync started is in the SST pushed last
\* or in the active memtable, as written or superseded by a later write
DuringWritesKept ==
    \A k \in DOMAIN syncs.since :
        \/ SstHolds(inners[slot].l0_sstables[Len(inners[slot].l0_sstables)],
                    k, syncs.since[k])
        \/ IF k \in DOMAIN maps[inners[slot].memtable]
           THEN maps[inners[slot].memtable][k] \in syncs.since[k]
           ELSE FALSE

C8_NoTombstoneExposed ==
    IF litPhase = "running" /\ litIt.ok
    THEN (LsmIterator_is_valid(litIt.it.iter)
            => LsmIterator_value(litIt.it.iter) # <<>>)
    ELSE TRUE

\* the iterator is valid on an entry that follows a tombstone of A and a
\* tombstone of B, under an end bound
C8_Witness ==
    /\ litPhase = "running" /\ litIt.ok
    /\ LsmIterator_is_valid(litIt.it.iter)
    /\ litBound # Unbounded
    /\ \E i \in DOMAIN litA :
           litA[i][2] = <<>> /\ BytesLess(litA[i][1], LsmIterator_key(litIt.it.iter))
    /\ \E i \in DOMAIN litB :
           litB[i][2] = <<>> /\ BytesLess(litB[i][1], LsmIterator_key(litIt.it.iter))

\* the keys of the i-th cursor handed to MergeIterator::create
CursorKeys(i) == {mrgIn[i].items[j][1] : j \in DOMAIN mrgIn[i].items}

\* the sorted union of the keys of the cursors, each key with the value of
\* the cursor of lowest index that holds it (the i-th cursor holds <<i>>)
MergeExpected ==
    LET U == UNION {CursorKeys(i) : i \in DOMAIN mrgIn}
        Lowest(k) == CHOOSE i \in DOMAIN mrgIn :
                        /\ k \in CursorKeys(i)
                        /\ \A j \in 1..(i - 1) : k \notin CursorKeys(j)
    IN  [n \in 1..Cardinality(U) |-> <<SortedKeys(U)[n], <<Lowest(SortedKeys(U)[n])>> >>]

\* C9: for any list of cursors, each strictly ascending by key, the
\* sequence MergeIterator exposes until it is invalid is the sorted union of
\* their keys, each key once, with the value of the cursor of lowest
\* construction index among those that hold the key.
C9_MergeOutput ==
    IF mrgPhase = "running" /\ mrgIt.ok
    THEN /\ Len(mrgOut) <= Len(MergeExpected)
         /\ mrgOut = SubSeq(MergeExpected, 1, Len(mrgOut))
         /\ ~MergeIterator_is_valid(mrgIt.it) => mrgOut = MergeExpected
    ELSE TRUE

\* the merge of three cursors ran to its end: the first is empty, the other
\* two share a key and each holds a key of its own
C9_Witness ==
    /\ mrgPhase = "running" /\ mrgIt.ok /\ ~MergeIterator_is_valid(mrgIt.it)
    /\ Len(mrgIn) = 3
    /\ CursorKeys(1) = {}
    /\ CursorKeys(2) \cap CursorKeys(3) # {}
    /\ CursorKeys(2) \ CursorKeys(3) # {}
    /\ CursorKeys(3) \ CursorKeys(2) # {}

\* C14: once a reader has obtained its snapshot of LsmStorageInner, the
\* fields of the snapshot (memtable, imm_memtables, l0_sstables, next_sst_id)
\* are left unchanged by every later step of any thread, the steps of a sync
\* included, for as long as the reader holds it.
C14_SnapshotIsolation ==
    [][\A t \in DOMAIN th :
          (th[t].snap # 0 /\ th'[t].snap = th[t].snap)
              => inners'[th[t].snap] = inners[th[t].snap]]_vars

\* a reader holds a snapshot taken after the freeze of a sync, and the sync
\* has promoted its SST since, on a copy of the layer set
C14_Witness ==
    \E t \in DOMAIN th :
        /\ th[t].snap # 0 /\ th[t].snap # slot
        /\ inners[th[t].snap].imm_memtables # <<>>
        /\ inners[th[t].snap].l0_sstables = <<>>
        /\ inners[slot].imm_memtables = <<>>
        /\ inners[slot].l0_sstables # <<>>

(***************************************************************************)
(* Claims about a sync that fails (checked under SpecFail).                *)
(***************************************************************************)
\* a sync has panicked in its flush
SyncFailed == \E u \in DOMAIN th : th[u].pc = "panicked"

\* the layer set after a failed sync: no SST was added, next_sst_id is
\* unchanged, and the frozen memtable is still in imm_memtables
FailedSyncLayers ==
    SyncFailed =>
        \A u \in DOMAIN th :
            th[u].pc = "panicked"
                => /\ inners[slot].next_sst_id = th[u].sst_id
                   /\ Len(inners[slot].l0_sstables) = th[u].sst_id - 1
                   /\ \E i \in DOMAIN inners[slot].imm_memtables :
                          inners[slot].imm_memtables[i] = th[u].memtable

\* C15: if sync fails in its flush or build, at any point of that step, then
\* no SST is added to l0_sstables, next_sst_id is unchanged, the frozen
\* memtable is still in imm_memtables, and every get(k) afterwards returns
\* what it returned before the sync was called.
C15_FailedSyncHarmless ==
    /\ FailedSyncLayers
    /\ \A t \in DOMAIN th :
           IF th[t].pc = "got" /\ th[t].after_fail /\ th[t].key \notin DOMAIN syncs.since
           THEN th[t].result = syncs.pre[th[t].key]
           ELSE TRUE

\* C15, the part about the layer set only: this part holds.
C15_FailedSyncLayers == FailedSyncLayers

\* a get that began after a sync had panicked returned, for a key written
\* before that sync
C15_Witness ==
    \E t \in DOMAIN th :
        /\ th[t].pc = "got" /\ th[t].after_fail
        /\ th[t].key \in DOMAIN syncs.before
        /\ th[t].key \notin DOMAIN syncs.since

(***************************************************************************)
(* More claims about LsmStorage run by one thread (checked under Spec).    *)
(***************************************************************************)
\* no memtable and no SST of the layer set holds an entry with an empty key
NoEmptyKey ==
    /\ \A m \in DOMAIN maps : <<>> \notin DOMAIN maps[m]
    /\ \A i \in DOMAIN inners[slot].l0_sstables :
           ~SstHolds(inners[slot].l0_sstables[i], <<>>, Values \cup {<<>>})

\* a call is rejected exactly when its key is empty or, for put, its value
RejectedExactly ==
    \A t \in DOMAIN th :
        /\ th[t].pc = "rejected" => (th[t].key = <<>> \/ th[t].value = <<>>)
        /\ th[t].pc = "put" => (th[t].key # <<>> /\ th[t].value # <<>>)
        /\ th[t].pc = "delete" => th[t].key # <<>>

\* C16: put rejects an empty key and an empty value, delete rejects an empty
\* key, before any write: the step that rejects leaves the memtables,
\* imm_memtables, l0_sstables and next_sst_id unchanged, and no entry with an
\* empty key ever exists in a memtable or an SST.
C16_RejectedWrites ==
    /\ [][(\E t \in DOMAIN th : th[t].pc # "rejected" /\ th'[t].pc = "rejected")
            => UNCHANGED <<inners, slot, maps>>]_vars
    /\ [](NoEmptyKey /\ RejectedExactly)

\* a put with an empty value was rejected on a storage that holds an entry
\* in its memtable and one in an SST
C16_Witness ==
    \E t \in DOMAIN th :
        /\ th[t].pc = "rejected"
        /\ th[t].key # <<>> /\ th[t].value = <<>>
        /\ maps[inners[slot].memtable] # <<>>
        /\ \E i \in DOMAIN inners[slot].l0_sstables :
               SsTable_num_of_blocks(inners[slot].l0_sstables[i]) > 0

\* the value the newest of the SSTs l0[1..i] that contains key holds for it
RECURSIVE FirstLayerL0(_, _, _)
FirstLayerL0(l0, i, key) ==
    IF i = 0 THEN ResNone
    ELSE LET es == TableEntries(l0[i], 0)
             at == {j \in DOMAIN es : es[j][1] = key}
         IN  IF at # {} THEN OptionResult(es[CHOOSE j \in at : TRUE][2])
             ELSE FirstLayerL0(l0, i - 1, key)

\* the same over imm_memtables[1..i], newest first, then over l0_sstables
RECURSIVE FirstLayerImm(_, _, _, _)
FirstLayerImm(inner, i, key, mps) ==
    IF i = 0 THEN FirstLayerL0(inner.l0_sstables, Len(inner.l0_sstables), key)
    ELSE IF key \in DOMAIN mps[inner.imm_memtables[i]]
    THEN OptionResult(mps[inner.imm_memtables[i]][key])
    ELSE FirstLayerImm(inner, i - 1, key, mps)

\* the value of the first layer of `inner` that contains key, none if that
\* value is empty or no layer contains key
FirstLayer(inner, key, mps) ==
    IF key \in DOMAIN mps[inner.memtable]
    THEN OptionResult(mps[inner.memtable][key])
    ELSE FirstLayerImm(inner, Len(inner.imm_memtables), key, mps)

\* C17: get(k) returns the value held for k by the first layer of its
\* snapshot that contains k, in the order active memtable, immutable
\* memtables newest to oldest, L0 SSTs newest to oldest (none if that value
\* is empty or no layer contains k); an L0 SST that does not contain k never
\* prevents older L0 SSTs from being consulted.
C17_LayeredLookup ==
    \A t \in DOMAIN th :
        th[t].pc = "got"
            => th[t].result = FirstLayer(inners[th[t].snap], th[t].key, maps)

\* a get has returned none for a key that an older L0 SST holds with a
\* value, the newer L0 SST holding smaller keys only; every SST has blocks
C17_Witness ==
    \E t \in DOMAIN th :
        /\ th[t].pc = "got"
        /\ th[t].result = ResNone
        /\ Len(inners[th[t].snap].l0_sstables) = 2
        /\ \A i \in 1..2 : SsTable_num_of_blocks(inners[th[t].snap].l0_sstables[i]) > 0
        /\ SstHolds(inners[th[t].snap].l0_sstables[1], th[t].key, Values)
        /\ ~SstHolds(inners[th[t].snap].l0_sstables[2], th[t].key, Values \cup {<<>>})
        /\ th[t].key \notin DOMAIN maps[inners[th[t].snap].memtable]

\* the claim of C17 for snapshots with at most one L0 SST, that one not empty
C17_LayeredLookupOneSst ==
    \A t \in DOMAIN th :
        IF /\ th[t].pc = "got"
           /\ Len(inners[th[t].snap].l0_sstables) <= 1
           /\ \A i \in DOMAIN inners[th[t].snap].l0_sstables :
                  SsTable_num_of_blocks(inners[th[t].snap].l0_sstables[i]) > 0
        THEN th[t].result = FirstLayer(inners[th[t].snap], th[t].key, maps)
        ELSE TRUE

(***************************************************************************)
(* More claims about LsmStorage run by two threads (checked under          *)
(* SpecConc, where no sync fails).                                         *)
(***************************************************************************)
\* the threads between step 2 (freeze) and step 4 (promote) of sync
Flushers == {t \in DOMAIN th : th[t].pc \in {"sync_flush", "sync_promote"}}

\* the memtables of imm_memtables
ImmSet == {inners[slot].imm_memtables[i] : i \in DOMAIN inners[slot].imm_memtables}

SingleFlusher ==
    /\ Cardinality(Flushers) <= 1
    /\ Len(inners[slot].imm_memtables) <= 1
    /\ Flushers = {} => inners[slot].imm_memtables = <<>>
    /\ \A t \in Flushers : inners[slot].imm_memtables = <<th[t].memtable>>
    /\ inners[slot].memtable \notin ImmSet

\* C18: at most one thread is between freeze and promote of sync; with no
\* failing sync, imm_memtables holds at most one memtable, is empty when no
\* sync is in progress, the memtable popped by promote is the one the same
\* sync froze, and the active memtable is never in imm_memtables.
C18_SingleFlusher ==
    /\ []SingleFlusher
    /\ [][\A t \in DOMAIN th :
            (th[t].pc = "sync_promote" /\ th'[t].pc = "synced")
                => /\ inners[slot].imm_memtables =
                          Append(inners'[slot'].imm_memtables, th[t].memtable)
                   /\ inners'[slot'].memtable = inners[slot].memtable]_vars

\* the second sync has popped the memtable it froze while the other thread
\* wrote to the new active memtable and waits for the lock or reads
C18_Witness ==
    \E t \in DOMAIN th :
        /\ th[t].pc = "synced"
        /\ inners[slot].imm_memtables = <<>>
        /\ Len(inners[slot].l0_sstables) = 2
        /\ th[t].memtable # inners[slot].memtable
        /\ maps[inners[slot].memtable] # <<>>
        /\ \E u \in DOMAIN th : u # t /\ th[u].pc # "idle"

\* the SSTs pushed have the ids 1, 2, ... in the order of l0_sstables, a
\* sync that has called build did so with the next id, and next_sst_id is
\* one more than the number of syncs that pushed their SST
SstIds ==
    /\ Len(syncs.ids) = Len(inners[slot].l0_sstables)
    /\ \A i \in DOMAIN syncs.ids : syncs.ids[i] = i
    /\ \A t \in DOMAIN th :
           th[t].pc = "sync_promote" => th[t].sst_id = Len(syncs.ids) + 1
    /\ inners[slot].next_sst_id = 1 + Len(syncs.ids)

\* C19: the ids passed to SsTableBuilder::build are pairwise distinct and
\* strictly increasing in the order of l0_sstables (the n-th completed sync
\* uses id n, from 1); next_sst_id never decreases and is always 1 + the
\* number of completed syncs.
C19_SstIds ==
    /\ []SstIds
    /\ [][inners'[slot'].next_sst_id >= inners[slot].next_sst_id]_vars

\* two syncs, run by different threads, have pushed their SSTs
C19_Witness ==
    /\ syncs.ids = <<1, 2>>
    /\ inners[slot].next_sst_id = 3
    /\ \E t \in DOMAIN th : th[t].pc = "synced" /\ th[t].sst_id = 2
    /\ \E t \in DOMAIN th : th[t].pc # "synced" /\ th[t].pc # "idle"

\* the entries of a map, ascending by key
MapEntries(m) ==
    [i \in 1..Cardinality(DOMAIN m) |->
        <<SortedKeys(DOMAIN m)[i], m[SortedKeys(DOMAIN m)[i]]>>]

\* the keys of a sequence of entries are strictly ascending
StrictlyAscending(es) ==
    \A i \in 1..(Len(es) - 1) : BytesLess(es[i][1], es[i + 1][1])

\* sst holds what thread t froze, and the frozen memtable is empty
Flushed(t, sst) ==
    /\ TableEntries(sst, 0) = MapEntries(th[t].frozen)
    /\ StrictlyAscending(TableEntries(sst, 0))
    /\ maps[th[t].memtable] = <<>>

\* C20: the SST a sync pushes onto l0_sstables holds exactly the entries
\* the frozen memtable held when it was frozen (one per key with its latest
\* value, tombstones as empty values), strictly ascending by key, and the
\* frozen memtable is empty when the flush ends.
C20_FlushContent ==
    \A t \in DOMAIN th :
        /\ th[t].pc = "sync_promote" => Flushed(t, th[t].sst)
        /\ th[t].pc = "synced"
               => Flushed(t, inners[slot].l0_sstables[Len(inners[slot].l0_sstables)])

\* a sync has pushed the SST of a memtable that held a put and a tombstone
\* when frozen, while the other thread runs an operation
C20_Witness ==
    \E t \in DOMAIN th :
        /\ th[t].pc = "synced"
        /\ DOMAIN th[t].frozen = Keys
        /\ \E k \in Keys : th[t].frozen[k] = <<>>
        /\ \E k \in Keys : th[t].frozen[k] # <<>>
        /\ \E u \in DOMAIN th : u # t /\ th[u].pc # "idle"
        /\ Flushed(t, inners[slot].l0_sstables[Len(inners[slot].l0_sstables)])

\* under SpecFail: the SST pushed has two blocks
C20_TwoBlocks ==
    \E t \in DOMAIN th :
        /\ th[t].pc = "synced"
        /\ SsTable_num_of_blocks(inners[slot].l0_sstables[Len(inners[slot].l0_sstables)]) = 2

(***************************************************************************)
(* Claims about TwoMergeIterator (checked under SpecTwo).                  *)
(***************************************************************************)
\* the sorted union of the keys of A and B, with the value of A for a key
\* of both
TwoExpected ==
    LET KA == {twoA[i][1] : i \in DOMAIN twoA}
        KB == {twoB[i][1] : i \in DOMAIN twoB}
        ks == SortedKeys(KA \cup KB)
        ValueIn(es, k) == es[CHOOSE i \in DOMAIN es : es[i][1] = k][2]
    IN  [i \in 1..Len(ks) |->
            <<ks[i], IF ks[i] \in KA THEN ValueIn(twoA, ks[i]) ELSE ValueIn(twoB, ks[i])>>]

\* C21: TwoMergeIterator over two strictly ascending cursors A and B exposes
\* the sorted union of their keys, each key once, with A's value for a key
\* of both; it is valid exactly while A or B is valid; and it never calls
\* key() or value() on an invalid child.
C21_PreferAMerge ==
    IF twoPhase = "running"
    THEN /\ twoIt.ok
         /\ TwoMergeIterator_is_valid(twoIt.it)
              <=> (MergeIterator_is_valid(twoIt.it.a) \/ MergeIterator_is_valid(twoIt.it.b))
         /\ Len(twoOut) <= Len(TwoExpected)
         /\ twoOut = SubSeq(TwoExpected, 1, Len(twoOut))
         /\ ~TwoMergeIterator_is_valid(twoIt.it) => twoOut = TwoExpected
         /\ \A c \in twoCalls : c[2]
    ELSE TRUE

\* the iterator has run to its end over an A and a B that share a key with
\* different values and each hold a key of their own
C21_Witness ==
    /\ twoPhase = "running"
    /\ ~TwoMergeIterator_is_valid(twoIt.it)
    /\ twoOut = TwoExpected
    /\ \E i \in DOMAIN twoA, j \in DOMAIN twoB :
           twoA[i][1] = twoB[j][1] /\ twoA[i][2] # twoB[j][2]
    /\ \E i \in DOMAIN twoA : \A j \in DOMAIN twoB : twoA[i][1] # twoB[j][1]
    /\ \E j \in DOMAIN twoB : \A i \in DOMAIN twoA : twoA[i][1] # twoB[j][1]
    /\ twoCalls = {<<"a", TRUE>>, <<"b", TRUE>>}

(***************************************************************************)
(* More claims about SsTableBuilder and SsTable (checked under SpecSst).   *)
(***************************************************************************)
\* C22: SsTableBuilder::add never fails on the retry: for every non-empty
\* key and every value, of any size relative to block_size, add ends with
\* the entry stored in some block after at most one roll of the block
\* builder, and the assertion of BlockBuilder::build is never violated
\* during add.  (The keys of SpecSst are not empty, so add panics there only
\* through that assertion.)
C22_AddNeverFails == sstPhase # "panicked"

\* the entry fits a block of its own
FitsEmptyBlock(sb, key, value) ==
    Len(key) + Len(value) + 3 * SIZEOF_U16 <= sb.block_size

\* on every builder reached, add of a further key stores the entry in the
\* block under construction after at most one roll when the entry fits a
\* block of its own, and panics when it does not
C22_AddFailsExactlyOversize ==
    sstPhase = "building" =>
        \A key \in SstKeys, value \in SstValues :
            LET r == SsTableBuilder_add(sstBuilder, key, value)
                es == BlockEntries(BlockIterator_create_and_seek_to_first(
                          BlockBuilder_build(r.sb.block_builder).block))
            IN  IF FitsEmptyBlock(sstBuilder, key, value)
                THEN /\ r.ok
                     /\ Len(r.sb.meta) <= Len(sstBuilder.meta) + 1
                     /\ es # <<>>
                     /\ es[Len(es)] = <<key, value>>
                ELSE ~r.ok

\* add panicked on its retry: the block under construction held an entry
\* and refused the new one, it was sealed, and the fresh block builder
\* refused the entry as well
C22_Witness ==
    /\ sstPhase = "panicked"
    /\ sstAdded # <<>>
    /\ sstBuilder.blocks # <<>>
    /\ BlockBuilder_is_empty(sstBuilder.block_builder)

\* the bytes of block i (from 0) of the file, as block_metas delimits them
BlockRegion(t, i) ==
    SubSeq(t.file,
           t.block_metas[i + 1].offset + 1,
           IF i + 1 < Len(t.block_metas) THEN t.block_metas[i + 2].offset
           ELSE t.block_meta_offset)

\* the size of the entries of a sequence as a block stores them
RECURSIVE EntriesSize(_)
EntriesSize(es) ==
    IF es = <<>> THEN 0
    ELSE 2 * SIZEOF_U16 + Len(es[1][1]) + Len(es[1][2]) + EntriesSize(Tail(es))

\* the bytes are one encoded block and nothing else: their entries fill the
\* data section, and the offsets and the count follow
OneBlock(bytes) ==
    LET b == Block_decode(bytes)
        es == BlockEntries(BlockIterator_create_and_seek_to_first(b))
    IN  /\ Len(bytes) >= SIZEOF_U16
        /\ es # <<>>
        /\ Len(es) = Len(b.offsets)
        /\ EntriesSize(es) = Len(b.data)
        /\ Len(bytes) = Len(b.data) + Len(b.offsets) * SIZEOF_U16 + SIZEOF_U16

\* the entries of the blocks i, i + 1, ... read through BlockRegion
RECURSIVE RegionEntries(_, _)
RegionEntries(t, i) ==
    IF i >= Len(t.block_metas) THEN <<>>
    ELSE BlockEntries(BlockIterator_create_and_seek_to_first(
                          Block_decode(BlockRegion(t, i))))
         \o RegionEntries(t, i + 1)

BlockMetaInvariant(t, added) ==
    /\ (t.block_metas = <<>>) <=> (added = <<>>)
    /\ t.block_metas # <<>> => t.block_metas[1].offset = 0
    /\ \A i \in 1..(Len(t.block_metas) - 1) :
           /\ t.block_metas[i].offset < t.block_metas[i + 1].offset
           /\ BytesLess(t.block_metas[i].first_key, t.block_metas[i + 1].first_key)
    /\ t.block_metas # <<>> =>
           t.block_metas[Len(t.block_metas)].offset < t.block_meta_offset
    /\ t.block_meta_offset + Len(encode_block_meta(t.block_metas)) + SIZEOF_U32
           = Len(t.file)
    /\ \A i \in 0..(Len(t.block_metas) - 1) :
           LET es == BlockEntries(BlockIterator_create_and_seek_to_first(
                                      Block_decode(BlockRegion(t, i))))
           IN  /\ OneBlock(BlockRegion(t, i))
               /\ t.block_metas[i + 1].first_key = es[1][1]
               /\ \A j \in 2..Len(es) : BytesLess(es[1][1], es[j][1])
    /\ RegionEntries(t, 0) = added

\* C23: after add calls with strictly ascending keys followed by build,
\* block_metas has one entry per encoded block, the i-th offset is the byte
\* position where block i starts in the file (block i occupies
\* [offset_i, offset_{i+1}), the last block ends at meta_offset), first_key
\* is the smallest key of the block, and first keys are strictly ascending.
C23_BlockMetas ==
    sstPhase \in {"built", "seeked", "stepped"} => BlockMetaInvariant(sstTable, sstAdded)

\* a table of several blocks, each of several entries, was built
C23_Witness ==
    /\ sstPhase = "built"
    /\ SsTable_num_of_blocks(sstTable) >= 2
    /\ Len(sstAdded) >= 2 * SsTable_num_of_blocks(sstTable)
    /\ \E i \in DOMAIN sstTable.block_metas : sstTable.block_metas[i].offset > 0

(***************************************************************************)
(* Claims about FusedIterator (checked under SpecIter).                    *)
(***************************************************************************)
\* what a call of FusedIterator::next did, seen from the states before and
\* after it
FusedNextContract ==
    IF FusedIterator_is_valid(litIt.it)
    THEN /\ litIt'.forwarded
         /\ litIt'.ok = LsmIterator_next(litIt.it.iter, maps).ok
         /\ litIt'.it.iter = LsmIterator_next(litIt.it.iter, maps).it
    ELSE /\ litIt'.ok
         /\ ~litIt'.forwarded
         /\ litIt'.it = litIt.it
         /\ ~FusedIterator_is_valid(litIt'.it)

\* C24: once is_valid() is false, any number of further next calls return
\* Ok, do not call next of the wrapped iterator and leave the iterator
\* invalid; while valid, next forwards to the wrapped iterator and returns
\* its error unchanged.
C24_FusedNext ==
    [][(litPhase = "running" /\ litPhase' = "running") => FusedNextContract]_vars

\* next was called twice on an iterator that had run to its end
\* over entries of A and of B
C24_Witness ==
    /\ litPhase = "running"
    /\ litIt.ok /\ ~litIt.forwarded
    /\ litIt.past >= 2
    /\ ~FusedIterator_is_valid(litIt.it)
    /\ Len(litOut) >= 2

\* next of a valid FusedIterator has returned the Err of the cursor A
C24_ErrorForwarded ==
    /\ litPhase = "running"
    /\ ~litIt.ok /\ litIt.forwarded
    /\ litOut # <<>>

\* every SST of l0_sstables can be seeked, to its first entry and to a key
L0Seekable ==
    \A i \in DOMAIN inners[slot].l0_sstables :
        /\ SsTableIterator_create_and_seek_to_first(inners[slot].l0_sstables[i]).ok
        /\ \A k \in Keys :
               SsTableIterator_create_and_seek_to_key(inners[slot].l0_sstables[i], k).ok

\* C25: in every state reachable from open by put, delete and sync, a sync
\* of an empty active memtable included, every get and every scan
\* construction returns Ok: every SST of l0_sstables can be seeked without
\* read_block reporting a block index out of range.
C25_NoReadFailure ==
    /\ L0Seekable
    /\ \A t \in DOMAIN th : th[t].result # ResErr

\* a get has returned Err after a put, the sync that flushed it, and a
\* second sync right after it
C25_Witness ==
    \E t \in DOMAIN th :
        /\ th[t].pc = "got"
        /\ th[t].result = ResErr
        /\ th[t].key \in DOMAIN hist.last
        /\ Len(inners[slot].l0_sstables) = 2
        /\ SsTable_num_of_blocks(inners[slot].l0_sstables[1]) > 0
        /\ SsTable_num_of_blocks(inners[slot].l0_sstables[2]) = 0

\* a scan construction has returned Err
C25_ScanErr ==
    \E t \in DOMAIN th : th[t].pc = "scanned" /\ th[t].result = ResErr /\ th[t].out = <<>>

\* with no SST flushed from an empty memtable, no read fails
C25_NoReadFailureNonEmptySsts ==
    (\A i \in DOMAIN inners[slot].l0_sstables :
         SsTable_num_of_blocks(inners[slot].l0_sstables[i]) > 0)
        => C25_NoReadFailure

\* nothing is inserted into the memtable m by the step: it keeps or loses
\* entries (flush), and no entry changes its value
NoInsertion(m) ==
    /\ DOMAIN maps'[m] \subseteq DOMAIN maps[m]
    /\ \A k \in DOMAIN maps'[m] : maps'[m][k] = maps[m][k]

\* C26: in every interleaving no entry is inserted into a memtable after it
\* has been moved to imm_memtables; every insertion of put and delete lands
\* in the memtable that is the active one of the current layer set at the
\* moment of insertion.
C26_FrozenNoWrites ==
    [][/\ \A m \in DOMAIN maps : m # inners[slot].memtable => NoInsertion(m)
       /\ \A t \in DOMAIN th :
              (th[t].pc \in {"put", "delete"} /\ th'[t].pc = "idle")
                  => /\ th[t].target = inners[slot].memtable
                     /\ th[t].target \notin ImmSet
                     /\ th[t].key \in DOMAIN maps'[inners[slot].memtable]]_vars

\* while a sync flushes the memtable it froze, a write of another thread
\* has landed in the new active memtable
C26_Witness ==
    \E u \in DOMAIN th :
        /\ th[u].pc = "sync_flush"
        /\ th[u].frozen # <<>>
        /\ inners[slot].imm_memtables = <<th[u].memtable>>
        /\ maps[inners[slot].memtable] # <<>>
        /\ \E t \in DOMAIN th : t # u /\ th[t].prev.key \in DOMAIN maps[inners[slot].memtable]

(***************************************************************************)
(* Claims about progress (checked under SpecLive and SpecConcLive).        *)
(***************************************************************************)
\* no thread waits for a lock that cannot be released: sync_lock is held by
\* a thread inside sync, the read lock by threads inside put or delete, and
\* a thread that waits for the write lock holds no read lock
NoLockDeadlock ==
    /\ sync_lock # 0 =>
           th[sync_lock].pc \in {"sync_freeze", "sync_flush", "sync_promote", "synced"}
    /\ \A t \in readers : th[t].pc \in {"put", "delete"}
    /\ \A t \in DOMAIN th :
           th[t].pc \in {"sync_freeze", "sync_flush", "sync_promote", "synced"}
               => (sync_lock = t /\ t \notin readers)

\* the sync of thread t has started, has returned with both locks released
SyncStarted(t) == th[t].pc = "sync_freeze"
SyncCompleted(t) == th[t].pc = "idle" /\ sync_lock # t /\ t \notin readers

\* C27: no reachable state is a deadlock on sync_lock and the lock of the
\* layer set, and under fair scheduling every started sync eventually
\* completes and releases both locks.
C27_Progress ==
    /\ []NoLockDeadlock
    /\ \A t \in 1..NumThreads : SyncStarted(t) ~> SyncCompleted(t)

\* the part that holds also when a sync panics: no deadlock, and every
\* started sync ends, by its return or by its panic, with sync_lock released
C27_LocksReleased ==
    /\ []NoLockDeadlock
    /\ \A t \in 1..NumThreads :
           SyncStarted(t) ~> (th[t].pc \in {"idle", "panicked"} /\ sync_lock # t)

\* a started sync has panicked in its flush: it will never complete
C27_Witness ==
    \E t \in DOMAIN th :
        /\ th[t].pc = "panicked"
        /\ sync_lock = 0 /\ readers = {}
        /\ inners[slot].imm_memtables = <<th[t].memtable>>
        /\ \E u \in DOMAIN th : u # t /\ th[u].pc = "got"

=============================================================================
